---- MODULE Spec2Model ----
(***************************************************************************)
(* A model of the relayer client of polymarket-rs (src/src/relayer).       *)
(*                                                                         *)
(* The client's state is the RelayerClient struct built by                 *)
(* RelayerClient::new. Each public async operation runs in a call frame:   *)
(* one action per segment of the operation between two await points. The   *)
(* relayer, the data API, the signer and the clock are the environment:    *)
(* every response they can give is an input drawn from a small set.        *)
(*                                                                         *)
(* Strings are TLA+ strings. A byte string is the lowercase hex string of  *)
(* its bytes (two characters per byte). keccak256 is taken collision-free: *)
(* a hash is the tagged hex string it was computed from.                   *)
(***************************************************************************)
EXTENDS Integers, Sequences, FiniteSets, TLC

VARIABLES
    client,     \* the RelayerClient (Option: None before construction)
    call        \* per caller: the frame of the operation it is running

vars == <<client, call>>

----------------------------------------------------------------------------
(* Bounds of the model *)

\* largest explicit max_polls argument given to wait_for_transaction
MaxPollsArg == 2

\* longest list of calls given to execute
MaxCalls == 2

\* longest list of positions the data API reports
MaxPositions == 2

----------------------------------------------------------------------------
(* Option and Result *)

None == [some |-> FALSE]
Some(x) == [some |-> TRUE, val |-> x]

Ok(x) == [tag |-> "Ok", val |-> x]
Err(kind, message) == [tag |-> "Err", kind |-> kind, status |-> 0, message |-> message]
\* Error::Api { status, message }
ErrApi(status, message) == [tag |-> "Err", kind |-> "Api", status |-> status, message |-> message]

unwrap_or(opt, default) == IF opt.some THEN opt.val ELSE default

----------------------------------------------------------------------------
(* Strings and bytes *)

Char(s, i) == SubSeq(s, i, i)

starts_with(s, prefix) ==
    Len(s) >= Len(prefix) /\ SubSeq(s, 1, Len(prefix)) = prefix

ends_with(s, suffix) ==
    Len(s) >= Len(suffix) /\ SubSeq(s, Len(s) - Len(suffix) + 1, Len(s)) = suffix

\* if s.starts_with("0x") { &s[2..] } else { s }
strip_0x(s) == IF starts_with(s, "0x") THEN SubSeq(s, 3, Len(s)) ELSE s

RECURSIVE trim_start_matches(_, _)
\* str::trim_start_matches: every repetition of the prefix is removed
trim_start_matches(s, prefix) ==
    IF starts_with(s, prefix)
    THEN trim_start_matches(SubSeq(s, Len(prefix) + 1, Len(s)), prefix)
    ELSE s

RECURSIVE repeat(_, _)
\* str::repeat
repeat(s, n) == IF n <= 0 THEN "" ELSE s \o repeat(s, n - 1)

HexDigits == "0123456789abcdef"

\* the value of each hex digit character, lowercase or uppercase
HexValue ==
    ("0" :> 0) @@ ("1" :> 1) @@ ("2" :> 2) @@ ("3" :> 3) @@ ("4" :> 4) @@ ("5" :> 5)
    @@ ("6" :> 6) @@ ("7" :> 7) @@ ("8" :> 8) @@ ("9" :> 9)
    @@ ("a" :> 10) @@ ("b" :> 11) @@ ("c" :> 12) @@ ("d" :> 13) @@ ("e" :> 14) @@ ("f" :> 15)
    @@ ("A" :> 10) @@ ("B" :> 11) @@ ("C" :> 12) @@ ("D" :> 13) @@ ("E" :> 14) @@ ("F" :> 15)

HexChars == DOMAIN HexValue
DigitChars == {"0", "1", "2", "3", "4", "5", "6", "7", "8", "9"}

IsDigit(c) == c \in DigitChars
IsHexChar(c) == c \in HexChars

\* the ASCII uppercase letters of the strings of the model, lowered
Lowered ==
    ("A" :> "a") @@ ("B" :> "b") @@ ("C" :> "c") @@ ("D" :> "d") @@ ("E" :> "e")
    @@ ("F" :> "f") @@ ("X" :> "x")

LowerChar(c) == IF c \in DOMAIN Lowered THEN Lowered[c] ELSE c

RECURSIVE LowerFrom(_, _)
LowerFrom(s, i) ==
    IF i > Len(s) THEN "" ELSE LowerChar(Char(s, i)) \o LowerFrom(s, i + 1)

\* str::to_lowercase
to_lowercase(s) ==
    IF \A i \in 1..Len(s) : Char(s, i) \notin DOMAIN Lowered THEN s ELSE LowerFrom(s, 1)

AllHex(s) == \A i \in 1..Len(s) : IsHexChar(Char(s, i))

\* hex::decode(s).unwrap_or_default(): the bytes (as lowercase hex), or no
\* bytes when the length is odd or a character is not a hex digit
hex_decode_or_default(s) ==
    IF Len(s) % 2 = 0 /\ AllHex(s) THEN to_lowercase(s) ELSE ""

ByteLen(bytes) == Len(bytes) \div 2

HexDigitOf(n) == Char(HexDigits, n + 1)
DigitVal(c) == HexValue[c]

RECURSIVE NatToHex(_)
\* format!("{:x}", n)
NatToHex(n) == IF n < 16 THEN HexDigitOf(n) ELSE NatToHex(n \div 16) \o HexDigitOf(n % 16)

RECURSIVE to_string(_)
\* u64::to_string, u8::to_string
to_string(n) == IF n < 10 THEN HexDigitOf(n) ELSE to_string(n \div 10) \o HexDigitOf(n % 10)

\* format!("{:0>width$}", s): pads on the left, never truncates
PadLeftZeros(s, width) == repeat("0", width - Len(s)) \o s

----------------------------------------------------------------------------
(* keccak256, taken collision-free: the digests the wallet derivation      *)
(* slices are the real ones; every other digest is the tagged input.       *)

keccak256(input) ==
    CASE input = "000000000000000000000000" \o repeat("11", 20)
            -> "aafae41182fdefb0af836c3b506e127c7f229f33360c66de1139f4b0316f09d8"
      [] input = "000000000000000000000000" \o repeat("22", 20)
            -> "761d1673706b12d7996f463b3ee41f89445e41739a7b2688d9e00d8e45cf27f3"
      [] input = "ff" \o "aacfeea03eb1561c4e67d661e40682bd20e3541b"
                      \o "aafae41182fdefb0af836c3b506e127c7f229f33360c66de1139f4b0316f09d8"
                      \o "2bce2127ff07fb632d16c8347c4ebf501f4841168bed00d9e6ef715ddb6fcecf"
            -> "9bb07bf0e952f0eb02bf87526b503ad95d139be2a07cd0e8888d71c6403d9c9c"
      [] input = "ff" \o "aacfeea03eb1561c4e67d661e40682bd20e3541b"
                      \o "761d1673706b12d7996f463b3ee41f89445e41739a7b2688d9e00d8e45cf27f3"
                      \o "2bce2127ff07fb632d16c8347c4ebf501f4841168bed00d9e6ef715ddb6fcecf"
            -> "3bbf0789bcd07efe98e1cb2448b6e483e9c3a8f3fc1d29c5d584e15482c7153a"
      [] OTHER -> "keccak(" \o input \o ")"

----------------------------------------------------------------------------
(* Decimal strings: str::parse::<u128> and the hex form of the value *)

U128MaxDecimal == "340282366920938463463374607431768211455"

RECURSIVE StripLeadingZeros(_)
StripLeadingZeros(digits) ==
    IF Len(digits) > 1 /\ Char(digits, 1) = "0"
    THEN StripLeadingZeros(SubSeq(digits, 2, Len(digits)))
    ELSE digits

RECURSIVE DecimalLeq(_, _)
\* a <= b for two digit strings of the same length
DecimalLeq(a, b) ==
    IF a = "" THEN TRUE
    ELSE IF DigitVal(Char(a, 1)) < DigitVal(Char(b, 1)) THEN TRUE
    ELSE IF DigitVal(Char(a, 1)) > DigitVal(Char(b, 1)) THEN FALSE
    ELSE DecimalLeq(SubSeq(a, 2, Len(a)), SubSeq(b, 2, Len(b)))

RECURSIVE DigitPrefix(_)
DigitPrefix(s) ==
    IF s = "" \/ ~IsDigit(Char(s, 1)) THEN ""
    ELSE Char(s, 1) \o DigitPrefix(SubSeq(s, 2, Len(s)))

parse_u128_DigitPrefix(value) ==
    IF DigitPrefix(value) = "" THEN None ELSE Some(StripLeadingZeros(DigitPrefix(value)))

\* value.parse::<u128>(): Some(canonical decimal) or None. An optional "+",
\* then at least one ASCII digit and nothing else; None above u128::MAX.
parse_u128(value) ==
    LET digits == IF starts_with(value, "+") THEN SubSeq(value, 2, Len(value)) ELSE value
        canon == StripLeadingZeros(digits)
    IN  IF digits = "" \/ \E i \in 1..Len(digits) : ~IsDigit(Char(digits, i)) THEN None
        ELSE IF Len(canon) > Len(U128MaxDecimal) THEN None
        ELSE IF Len(canon) = Len(U128MaxDecimal) /\ ~DecimalLeq(canon, U128MaxDecimal) THEN None
        ELSE Some(canon)

RECURSIVE DivMod16(_, _, _)
\* long division of a digit string by 16: <<quotient digits, remainder>>
DivMod16(digits, quotient, rem) ==
    IF digits = "" THEN <<StripLeadingZeros(quotient), rem>>
    ELSE LET cur == rem * 10 + DigitVal(Char(digits, 1))
         IN  DivMod16(SubSeq(digits, 2, Len(digits)),
                      quotient \o HexDigitOf(cur \div 16), cur % 16)

RECURSIVE DecimalToHex(_)
\* the hex digits of a canonical decimal string (format!("{:x}"))
DecimalToHex(dec) ==
    LET qr == DivMod16(dec, "0", 0)
    IN  IF qr[1] = "0" THEN HexDigitOf(qr[2])
        ELSE DecimalToHex(qr[1]) \o HexDigitOf(qr[2])

\* the 16 bytes of u128::to_be_bytes
u128_to_be_bytes(dec) == PadLeftZeros(DecimalToHex(dec), 32)

----------------------------------------------------------------------------
(* ABI words of the typed-data hasher (client.rs): a word is 32 bytes *)

ZeroWord == repeat("0", 64)

\* fn encode_address: right-aligned when at most 20 bytes decode, else zero
encode_address(addr) ==
    LET bytes == hex_decode_or_default(strip_0x(addr))
    IN  IF ByteLen(bytes) <= 20 THEN PadLeftZeros(bytes, 64) ELSE ZeroWord

\* fn encode_uint256: value.parse::<u128>().unwrap_or(0) in the low 16 bytes
encode_uint256(value) ==
    repeat("0", 32) \o u128_to_be_bytes(unwrap_or(parse_u128(value), "0"))

\* fn encode_uint8
encode_uint8(value) == PadLeftZeros(NatToHex(value), 64)

----------------------------------------------------------------------------
(* types.rs: operation and transaction types, contract configuration *)

\* OperationType as u8
OperationCall == 0
OperationDelegateCall == 1

\* TransactionType::as_str
TypeSafe == "SAFE"
TypeSafeCreate == "SAFE-CREATE"

ZERO_ADDRESS == "0x0000000000000000000000000000000000000000"
SAFE_INIT_CODE_HASH == "0x2bce2127ff07fb632d16c8347c4ebf501f4841168bed00d9e6ef715ddb6fcecf"
SAFE_FACTORY_NAME == "Polymarket Contract Proxy Factory"

mainnet_relayer_config ==
    [safe_factory |-> "0xaacFeEa03eb1561C4e67d661e40682Bd20E3541b",
     safe_multisend |-> "0xA238CBeb142c10Ef7Ad8442C6D1f9E89e07e7761",
     ctf |-> "0x4D97DCd97eC945f40cF65F87097ACe5EA0476045",
     collateral |-> "0x2791Bca1f2de4661ED88A30C99A7a9449Aa84174"]

amoy_relayer_config ==
    [safe_factory |-> "0xaacFeEa03eb1561C4e67d661e40682Bd20E3541b",
     safe_multisend |-> "0xA238CBeb142c10Ef7Ad8442C6D1f9E89e07e7761",
     ctf |-> "0x69308FB512518e39F9b16112fA8d994F4e2Bf8bB",
     collateral |-> "0x9c4e1703476e875070ee25b56a58b008cfb8fa78"]

get_relayer_config_FallsBackToMainnet(chain_id) ==
    IF chain_id = 80002 THEN Some(amoy_relayer_config) ELSE Some(mainnet_relayer_config)

\* pub fn get_relayer_config
get_relayer_config(chain_id) ==
    IF chain_id = 137 THEN Some(mainnet_relayer_config)
    ELSE IF chain_id = 80002 THEN Some(amoy_relayer_config)
    ELSE None

\* SafeTransaction::new(to, data): a direct call of value "0"
SafeTransaction(to, data) ==
    [to |-> to, operation |-> OperationCall, data |-> data, value |-> "0"]

\* SignatureParams::for_safe_execution
for_safe_execution(operation) ==
    [gas_price |-> Some("0"), operation |-> Some(to_string(operation)),
     safe_txn_gas |-> Some("0"), base_gas |-> Some("0"),
     gas_token |-> Some(ZERO_ADDRESS), refund_receiver |-> Some(ZERO_ADDRESS),
     payment_token |-> None, payment |-> None, payment_receiver |-> None]

\* SignatureParams::for_safe_create
for_safe_create ==
    [gas_price |-> None, operation |-> None, safe_txn_gas |-> None, base_gas |-> None,
     gas_token |-> None, refund_receiver |-> None,
     payment_token |-> Some(ZERO_ADDRESS), payment |-> Some("0"),
     payment_receiver |-> Some(ZERO_ADDRESS)]

----------------------------------------------------------------------------
(* Wallet address derivation and typed-data hashing (client.rs) *)

\* pub fn derive_safe_address
derive_safe_address(address, safe_factory) ==
    LET padded_address == repeat("00", 12) \o hex_decode_or_default(strip_0x(to_lowercase(address)))
        salt == keccak256(padded_address)
        data == "ff" \o hex_decode_or_default(strip_0x(to_lowercase(safe_factory)))
                     \o salt
                     \o hex_decode_or_default(strip_0x(SAFE_INIT_CODE_HASH))
        hash == keccak256(data)
    IN  "0x" \o SubSeq(hash, 25, Len(hash))

\* fn make_domain_separator
make_domain_separator(name, verifying_contract, chain_id) ==
    keccak256(keccak256("EIP712Domain(string name,address verifyingContract,uint256 chainId)")
              \o keccak256(name)
              \o encode_address(verifying_contract)
              \o encode_uint256(to_string(chain_id)))

make_safe_domain_separator_WithName(safe, chain_id) ==
    make_domain_separator(SAFE_FACTORY_NAME, safe, chain_id)

\* fn make_safe_domain_separator
make_safe_domain_separator(safe, chain_id) ==
    keccak256(keccak256("EIP712Domain(uint256 chainId,address verifyingContract)")
              \o encode_uint256(to_string(chain_id))
              \o encode_address(safe))

\* fn create_safe_create_struct_hash
create_safe_create_struct_hash(safe_factory, chain_id, payment_token, payment, payment_receiver) ==
    LET struct_hash ==
            keccak256(keccak256("CreateProxy(address paymentToken,uint256 payment,address paymentReceiver)")
                      \o encode_address(payment_token)
                      \o encode_uint256(payment)
                      \o encode_address(payment_receiver))
        domain_separator == make_domain_separator(SAFE_FACTORY_NAME, safe_factory, chain_id)
    IN  keccak256("1901" \o domain_separator \o struct_hash)

\* fn create_safe_struct_hash
create_safe_struct_hash(chain_id, safe, to, value, data, operation, safe_tx_gas, base_gas, gas_price, gas_token, refund_receiver, nonce) ==
    LET data_hash == keccak256(hex_decode_or_default(strip_0x(data)))
        struct_hash ==
            keccak256(keccak256("SafeTx(address to,uint256 value,bytes data,uint8 operation,uint256 safeTxGas,uint256 baseGas,uint256 gasPrice,address gasToken,address refundReceiver,uint256 nonce)")
                      \o encode_address(to)
                      \o encode_uint256(value)
                      \o data_hash
                      \o encode_uint8(operation)
                      \o encode_uint256(safe_tx_gas)
                      \o encode_uint256(base_gas)
                      \o encode_uint256(gas_price)
                      \o encode_address(gas_token)
                      \o encode_address(refund_receiver)
                      \o encode_uint256(nonce))
        domain_separator == make_safe_domain_separator(safe, chain_id)
    IN  keccak256("1901" \o domain_separator \o struct_hash)

----------------------------------------------------------------------------
(* CtfEncoder (ctf.rs): call data as a lowercase 0x-prefixed hex string *)

\* ctf.rs fn encode_address
ctf_encode_address(addr) == PadLeftZeros(to_lowercase(trim_start_matches(addr, "0x")), 64)

\* ctf.rs fn encode_bytes32
encode_bytes32(value) == PadLeftZeros(to_lowercase(trim_start_matches(value, "0x")), 64)

\* ctf.rs fn encode_uint256(value: u64)
ctf_encode_uint256(value) == PadLeftZeros(NatToHex(value), 64)

\* ctf.rs fn encode_uint256_from_str
encode_uint256_from_str(value) ==
    PadLeftZeros(DecimalToHex(unwrap_or(parse_u128(value), "0")), 64)

RECURSIVE EncodeIndexSets_Reversed(_)
EncodeIndexSets_Reversed(index_sets) ==
    IF index_sets = <<>> THEN ""
    ELSE EncodeIndexSets_Reversed(Tail(index_sets)) \o ctf_encode_uint256(Head(index_sets))

RECURSIVE EncodeIndexSets(_)
EncodeIndexSets(index_sets) ==
    IF index_sets = <<>> THEN ""
    ELSE ctf_encode_uint256(Head(index_sets)) \o EncodeIndexSets(Tail(index_sets))

\* CtfEncoder::encode_redeem_positions
encode_redeem_positions(collateral_token, condition_id, index_sets) ==
    "0x" \o "01b7037c"
         \o ctf_encode_address(collateral_token)
         \o repeat("0", 64)
         \o encode_bytes32(condition_id)
         \o ctf_encode_uint256(128)
         \o ctf_encode_uint256(Len(index_sets))
         \o EncodeIndexSets(index_sets)

\* CtfEncoder::encode_split_position
encode_split_position(collateral_token, condition_id, amount) ==
    "0x" \o "72ce4275"
         \o ctf_encode_address(collateral_token)
         \o repeat("0", 64)
         \o encode_bytes32(condition_id)
         \o ctf_encode_uint256(160)
         \o encode_uint256_from_str(amount)
         \o ctf_encode_uint256(2)
         \o ctf_encode_uint256(1)
         \o ctf_encode_uint256(2)

\* CtfEncoder::encode_merge_positions
encode_merge_positions(collateral_token, condition_id, amount) ==
    "0x" \o "d4e59c76"
         \o ctf_encode_address(collateral_token)
         \o repeat("0", 64)
         \o encode_bytes32(condition_id)
         \o ctf_encode_uint256(160)
         \o encode_uint256_from_str(amount)
         \o ctf_encode_uint256(2)
         \o ctf_encode_uint256(1)
         \o ctf_encode_uint256(2)

----------------------------------------------------------------------------
(* Call aggregation (client.rs) *)

\* one call packed for multiSend: operation, to (20 bytes), value, data length, data
EncodeForMultisend(tx) ==
    LET to_bytes == hex_decode_or_default(trim_start_matches(tx.to, "0x"))
        value == unwrap_or(parse_u128(tx.value), "0")
        data_bytes == hex_decode_or_default(trim_start_matches(tx.data, "0x"))
        kept == IF ByteLen(to_bytes) < 20 THEN ByteLen(to_bytes) ELSE 20
    IN  PadLeftZeros(NatToHex(tx.operation), 2)
        \o repeat("00", 20 - kept) \o SubSeq(to_bytes, 1, 2 * kept)
        \o repeat("00", 16) \o u128_to_be_bytes(value)
        \o repeat("00", 16) \o PadLeftZeros(NatToHex(ByteLen(data_bytes)), 32)
        \o data_bytes

RECURSIVE EncodedTxs_Reversed(_)
EncodedTxs_Reversed(transactions) ==
    IF transactions = <<>> THEN ""
    ELSE EncodedTxs_Reversed(Tail(transactions)) \o EncodeForMultisend(Head(transactions))

RECURSIVE EncodedTxs(_)
EncodedTxs(transactions) ==
    IF transactions = <<>> THEN ""
    ELSE EncodeForMultisend(Head(transactions)) \o EncodedTxs(Tail(transactions))

\* fn aggregate_transactions
aggregate_transactions(transactions, multisend_address) ==
    LET encoded_txs == EncodedTxs(transactions)
        padding == (32 - (ByteLen(encoded_txs) % 32)) % 32
        multisend_data ==
            "8d80ff0a"
            \o repeat("00", 16) \o PadLeftZeros(NatToHex(32), 32)
            \o repeat("00", 16) \o PadLeftZeros(NatToHex(ByteLen(encoded_txs)), 32)
            \o encoded_txs
            \o repeat("00", padding)
    IN  [to |-> multisend_address,
         operation |-> OperationDelegateCall,
         data |-> "0x" \o multisend_data,
         value |-> "0"]

----------------------------------------------------------------------------
(* Signature production (client.rs fn sign_eip712_struct_hash) *)

\* the match on the recovery byte; the generic arm adds 4 in u8 arithmetic,
\* which overflows for v >= 252: a panic with overflow checks, a wrap without
remap_recovery_byte(v, overflow_checks) ==
    IF v = 0 THEN Some(31)
    ELSE IF v = 1 THEN Some(32)
    ELSE IF v = 27 THEN Some(31)
    ELSE IF v = 28 THEN Some(32)
    ELSE IF v + 4 > 255 THEN (IF overflow_checks THEN None ELSE Some((v + 4) % 256))
    ELSE Some(v + 4)

\* what the signer answers to sign_message_sync: an error, or r, s and v
SignerVs == {0, 1, 27, 28, 255}
SignerAnswers == {[ok |-> FALSE]} \cup {[ok |-> TRUE, v |-> v] : v \in SignerVs}

\* r and s of the signer's signature over the prefixed hash
SignatureRS(signer, hash) == "sig(" \o signer.address \o "," \o hash \o ")"

\* Ok(signature string), Err(Signing), or a panic
sign_eip712_struct_hash(signer, hash, answer, overflow_checks) ==
    IF ~answer.ok THEN Err("Signing", "signer")
    ELSE LET v == remap_recovery_byte(answer.v, overflow_checks)
         IN  IF ~v.some THEN [tag |-> "Panic"]
             ELSE Ok("0x" \o SignatureRS(signer, hash) \o PadLeftZeros(NatToHex(v.val), 2))

----------------------------------------------------------------------------
(* Request serialization and authentication (client.rs) *)

JsonString(s) == "\"" \o s \o "\""
JsonField(name, s) == JsonString(name) \o ":" \o JsonString(s)
\* #[serde(skip_serializing_if = "Option::is_none")]
JsonOptField(name, opt) == IF opt.some THEN "," \o JsonField(name, opt.val) ELSE ""

\* serde_json::to_string(&SignatureParams), camelCase
SerializeSignatureParams(p) ==
    LET fields == JsonOptField("gasPrice", p.gas_price)
                  \o JsonOptField("operation", p.operation)
                  \o JsonOptField("safeTxnGas", p.safe_txn_gas)
                  \o JsonOptField("baseGas", p.base_gas)
                  \o JsonOptField("gasToken", p.gas_token)
                  \o JsonOptField("refundReceiver", p.refund_receiver)
                  \o JsonOptField("paymentToken", p.payment_token)
                  \o JsonOptField("payment", p.payment)
                  \o JsonOptField("paymentReceiver", p.payment_receiver)
    IN  "{" \o SubSeq(fields, 2, Len(fields)) \o "}"

\* serde_json::to_string(&TransactionRequest), camelCase, None fields skipped
SerializeRequest(r) ==
    "{" \o JsonField("type", r.tx_type)
        \o "," \o JsonField("from", r.from)
        \o "," \o JsonField("to", r.to)
        \o "," \o JsonField("proxyWallet", r.proxy_wallet)
        \o "," \o JsonField("data", r.data)
        \o "," \o JsonField("signature", r.signature)
        \o JsonOptField("value", r.value)
        \o JsonOptField("nonce", r.nonce)
        \o (IF r.signature_params.some
            THEN "," \o JsonString("signatureParams") \o ":"
                     \o SerializeSignatureParams(r.signature_params.val)
            ELSE "")
        \o JsonOptField("metadata", r.metadata)
    \o "}"

Base64Alphabet == "ABCDEFGHIJKLMNOPQRSTUVWXYZabcdefghijklmnopqrstuvwxyz0123456789+/-_="

\* whether the secret decodes as base64, standard alphabet or URL-safe
Base64Decodable(secret) ==
    /\ Len(secret) % 4 = 0
    /\ \A i \in 1..Len(secret) : \E j \in 1..Len(Base64Alphabet) : Char(Base64Alphabet, j) = Char(secret, i)

\* the clock: SystemTime::now() as seconds since the epoch, or a time before it
ClockReadings == {[ok |-> FALSE], [ok |-> TRUE, secs |-> 1700000000], [ok |-> TRUE, secs |-> 1700000030]}

HmacSha256(key, message) == "hmac(" \o key \o "," \o message \o ")"

generate_builder_headers_BodyNotSigned(creds, method, path, body, now) ==
    IF ~now.ok THEN Err("Signing", "clock")
    ELSE IF ~Base64Decodable(creds.secret) THEN Err("Signing", "Failed to decode secret")
    ELSE Ok([api_key |-> creds.key,
             signature |-> "b64url(" \o HmacSha256("b64(" \o creds.secret \o ")",
                                                   to_string(now.secs) \o method \o path) \o ")",
             timestamp |-> to_string(now.secs),
             passphrase |-> creds.passphrase])

\* fn generate_builder_headers
generate_builder_headers(creds, method, path, body, now) ==
    IF ~now.ok THEN Err("Signing", "clock")
    ELSE LET timestamp_str == to_string(now.secs)
             message == timestamp_str \o method \o path \o unwrap_or(body, "")
         IN  IF ~Base64Decodable(creds.secret) THEN Err("Signing", "Failed to decode secret")
             ELSE Ok([api_key |-> creds.key,
                      signature |-> "b64url(" \o HmacSha256("b64(" \o creds.secret \o ")", message) \o ")",
                      timestamp |-> timestamp_str,
                      passphrase |-> creds.passphrase])

----------------------------------------------------------------------------
(* Environment: an HTTP exchange either fails in transport or yields a     *)
(* status and a body. A body has a text; it decodes as the JSON value the  *)
(* caller expects, or it does not, or reading it fails midway.             *)

TransportError == [kind |-> "transport_error"]
Response(status, body) == [kind |-> "response", status |-> status, body |-> body]
Garbage == [json |-> FALSE, readable |-> TRUE, text |-> "upstream says no"]
Unreadable == [json |-> FALSE, readable |-> FALSE, text |-> "upstream sa"]
Json(v) == [json |-> TRUE, readable |-> TRUE, text |-> "{json}", val |-> v]

\* reqwest: .send().await?.json().await? -- the status is not looked at
DecodeJson(resp) ==
    IF resp.kind = "transport_error" THEN Err("Http", "send")
    ELSE IF ~resp.body.json THEN Err("Http", "decode")
    ELSE Ok(resp.body.val)

\* StatusCode::is_success
status_is_success(status) == 200 <= status /\ status <= 299

\* response.text().await.unwrap_or_default()
text_or_default(resp) == IF resp.body.readable THEN resp.body.text ELSE ""

----------------------------------------------------------------------------
(* RelayerTransactionState and RelayerTransaction (types.rs) *)

StateStrings ==
    {"STATE_NEW", "STATE_EXECUTED", "STATE_MINED", "STATE_CONFIRMED",
     "STATE_FAILED", "STATE_INVALID"}

\* a reading that takes a missing or unrecognised state string for Invalid
get_state_UnknownIsInvalid(tx) ==
    IF ~tx.state.some THEN Some("Invalid")
    ELSE IF tx.state.val = "STATE_NEW" THEN Some("New")
    ELSE IF tx.state.val = "STATE_EXECUTED" THEN Some("Executed")
    ELSE IF tx.state.val = "STATE_MINED" THEN Some("Mined")
    ELSE IF tx.state.val = "STATE_CONFIRMED" THEN Some("Confirmed")
    ELSE IF tx.state.val = "STATE_FAILED" THEN Some("Failed")
    ELSE Some("Invalid")

\* RelayerTransaction::get_state: Option<String> -> Option<RelayerTransactionState>
get_state(tx) ==
    IF ~tx.state.some THEN None
    ELSE IF tx.state.val = "STATE_NEW" THEN Some("New")
    ELSE IF tx.state.val = "STATE_EXECUTED" THEN Some("Executed")
    ELSE IF tx.state.val = "STATE_MINED" THEN Some("Mined")
    ELSE IF tx.state.val = "STATE_CONFIRMED" THEN Some("Confirmed")
    ELSE IF tx.state.val = "STATE_FAILED" THEN Some("Failed")
    ELSE IF tx.state.val = "STATE_INVALID" THEN Some("Invalid")
    ELSE None

is_success_AlsoExecuted(state) == state \in {"Executed", "Mined", "Confirmed"}

\* RelayerTransactionState::is_success
is_success(state) == state \in {"Mined", "Confirmed"}

\* RelayerTransactionState::is_terminal
is_terminal(state) == state \in {"Confirmed", "Failed", "Invalid"}

is_failed_or_invalid_OnlyFailed(state) == state = "Failed"

\* the test of wait_for_transaction: state == Failed || state == Invalid
is_failed_or_invalid(state) == state = "Failed" \/ state = "Invalid"

----------------------------------------------------------------------------
(* Call frames *)

Callers == {"caller"}

\* op: the public operation; pc: where it is suspended; args: its arguments;
\* loc: its locals; exec: the locals of the execute call it is inside;
\* log: what it has done so far (requests sent, signatures asked, sleeps);
\* submitted: the last POST /submit it sent; ret: its result
Idle == [op |-> "idle", pc |-> "idle", args |-> None, loc |-> None, exec |-> None,
         log |-> <<>>, submitted |-> None, ret |-> None]

Done(f, result) == [f EXCEPT !.pc = "done", !.ret = Some(result)]

Panicked(f) == [f EXCEPT !.pc = "panicked"]

\* a request that is issued a second time
Emit_Twice(f, event) == [f EXCEPT !.log = Append(Append(@, event), event)]

Emit(f, event) == [f EXCEPT !.log = Append(@, event)]

EvSleep(duration) == [kind |-> "sleep", ms |-> duration]
EvSign(hash) == [kind |-> "sign"]
EvGetTransaction(c, id) ==
    [kind |-> "get_transaction", url |-> c.relayer_url \o "/transaction?id=" \o id]
EvGetDeployed(c, safe_address) ==
    [kind |-> "get_deployed", url |-> c.relayer_url \o "/deployed?address=" \o safe_address]
EvGetNonce(c, address, tx_type) ==
    [kind |-> "get_nonce",
     url |-> c.relayer_url \o "/nonce?address=" \o address \o "&type=" \o tx_type]
EvGetPositions(data_api_url, user_address) ==
    [kind |-> "get_positions",
     url |-> data_api_url \o "/positions?user=" \o user_address
             \o "&redeemable=true&sizeThreshold=0.1&limit=100&offset=0&sortBy=CURRENT&sortDirection=DESC"]
EvSubmit(c) == [kind |-> "submit", url |-> c.relayer_url \o "/submit"]

NetworkKinds == {"get_deployed", "get_nonce", "get_transaction", "get_positions", "submit"}

CountKind(log, kind) == Cardinality({i \in DOMAIN log : log[i].kind = kind})

NetworkCalls(log) == Cardinality({i \in DOMAIN log : log[i].kind \in NetworkKinds})

----------------------------------------------------------------------------
(* RelayerClient::new and the private helpers *)

require_signer(c) ==
    IF c.signer.some THEN Ok(c.signer.val)
    ELSE Err("AuthRequired", "Signer is required for this operation")

require_builder_creds(c) ==
    IF c.builder_creds.some THEN Ok(c.builder_creds.val)
    ELSE Err("AuthRequired", "Builder credentials are required for this operation")

\* format!("0x{}", hex::encode(signer.address().as_slice()))
signer_address(signer) == "0x" \o signer.address

\* RelayerClient::get_expected_safe
get_expected_safe(c) ==
    LET signer == require_signer(c)
    IN  IF signer.tag = "Err" THEN signer
        ELSE Ok(derive_safe_address(signer_address(signer.val), c.contract_config.safe_factory))

\* RelayerClient::new
new(relayer_url, chain_id, signer, builder_creds) ==
    LET contract_config == get_relayer_config(chain_id)
    IN  IF ~contract_config.some
        THEN Err("Config", "Unsupported chain_id: " \o to_string(chain_id))
        ELSE Ok([relayer_url |-> IF ends_with(relayer_url, "/")
                                 THEN SubSeq(relayer_url, 1, Len(relayer_url) - 1)
                                 ELSE relayer_url,
                 chain_id |-> chain_id,
                 signer |-> signer,
                 builder_creds |-> builder_creds,
                 contract_config |-> contract_config.val])

RelayerUrls == {"https://relayer/"}
ChainIds == {137, 80002, 1, 138}
Signers == {None, Some([address |-> repeat("11", 20)])}
BuilderCreds ==
    {None,
     Some([key |-> "key", secret |-> "c2VjcmV0", passphrase |-> "pass"]),
     Some([key |-> "key", secret |-> "not base64!!", passphrase |-> "pass"])}

\* the client a caller holds: constructed, and construction succeeded
HasClient == client.some /\ client.val.tag = "Ok"
Client == client.val.val

New(relayer_url, chain_id, signer, builder_creds) ==
    /\ ~client.some
    /\ client' = Some(new(relayer_url, chain_id, signer, builder_creds))
    /\ UNCHANGED call

----------------------------------------------------------------------------
(* submit_transaction, deploy, execute *)

\* async fn submit_transaction, up to the await of send()
submit_transaction(c, f, request, now) ==
    LET builder_creds == require_builder_creds(c)
        body == SerializeRequest(request)
        headers == generate_builder_headers(builder_creds.val, "POST", "/submit", Some(body), now)
    IN  IF builder_creds.tag = "Err" THEN Done(f, builder_creds)
        ELSE IF headers.tag = "Err" THEN Done(f, headers)
        ELSE [Emit(f, EvSubmit(c)) EXCEPT
                !.pc = "submit_wait",
                !.submitted = Some([request |-> request, body |-> body, headers |-> headers.val])]

\* async fn submit_transaction, from the answer of send() on
submit_result(resp) ==
    IF resp.kind = "transport_error" THEN Err("Http", "send")
    ELSE IF ~status_is_success(resp.status) THEN ErrApi(resp.status, text_or_default(resp))
    ELSE DecodeJson(resp)

\* deploy up to the await of get_deployed
deploy_begin(c, f) ==
    LET signer == require_signer(c)
        creds == require_builder_creds(c)
        safe_address == get_expected_safe(c)
    IN  IF signer.tag = "Err" THEN Done(f, signer)
        ELSE IF creds.tag = "Err" THEN Done(f, creds)
        ELSE IF safe_address.tag = "Err" THEN Done(f, safe_address)
        ELSE [Emit(f, EvGetDeployed(c, safe_address.val)) EXCEPT
                !.pc = "deploy_deployed_wait",
                !.exec = Some([safe_address |-> safe_address.val])]

SafeCreateRequest(c, from_address, safe_address, signature) ==
    [tx_type |-> TypeSafeCreate,
     from |-> from_address,
     to |-> c.contract_config.safe_factory,
     proxy_wallet |-> safe_address,
     data |-> "0x",
     signature |-> signature,
     value |-> None,
     nonce |-> None,
     signature_params |-> Some(for_safe_create),
     metadata |-> None]

deploy_may_proceed_EvenIfDeployed(deployed) == TRUE

\* deploy goes on to sign and submit only if the wallet is not deployed
deploy_may_proceed(deployed) == ~deployed

\* deploy from the answer of get_deployed to the signing of the struct hash
deploy_after_deployed(c, f, resp) ==
    LET deployed == DecodeJson(resp)
        safe_address == f.exec.val.safe_address
        struct_hash == create_safe_create_struct_hash(
                           c.contract_config.safe_factory, c.chain_id,
                           ZERO_ADDRESS, "0", ZERO_ADDRESS)
        g == [f EXCEPT !.exec.val = [safe_address |-> safe_address, deployed |-> deployed.val]]
    IN  IF deployed.tag = "Err" THEN Done(f, deployed)
        ELSE IF ~deploy_may_proceed(deployed.val)
             THEN Done(g, Err("Config", "Safe " \o safe_address \o " is already deployed"))
        ELSE [f EXCEPT !.pc = "deploy_sign",
                       !.exec.val = [safe_address |-> safe_address, deployed |-> deployed.val,
                                     struct_hash |-> struct_hash]]

\* deploy from the signing to the await of the submit
deploy_sign_and_submit(c, f, answer, overflow_checks, now) ==
    LET e == f.exec.val
        signer == c.signer.val
        signature == sign_eip712_struct_hash(signer, e.struct_hash, answer, overflow_checks)
        g == Emit(f, EvSign(e.struct_hash))
    IN  IF f.pc # "deploy_sign" THEN f
        ELSE IF signature.tag = "Panic" THEN Panicked(g)
        ELSE IF signature.tag = "Err" THEN Done(g, signature)
        ELSE submit_transaction(c, g,
                 SafeCreateRequest(c, signer_address(signer), e.safe_address, signature.val), now)

is_empty_Never(transactions) == FALSE

\* transactions.is_empty()
is_empty(transactions) == transactions = <<>>

\* execute up to the await of get_deployed
execute_begin(c, f, transactions, metadata) ==
    LET signer == require_signer(c)
        creds == require_builder_creds(c)
        safe_address == get_expected_safe(c)
    IN  IF signer.tag = "Err" THEN Done(f, signer)
        ELSE IF creds.tag = "Err" THEN Done(f, creds)
        ELSE IF is_empty(transactions)
             THEN Done(f, Err("InvalidParameter", "No transactions provided"))
        ELSE IF safe_address.tag = "Err" THEN Done(f, safe_address)
        ELSE [Emit(f, EvGetDeployed(c, safe_address.val)) EXCEPT
                !.pc = "execute_deployed_wait",
                !.exec = Some([transactions |-> transactions,
                               metadata |-> metadata,
                               safe_address |-> safe_address.val,
                               start |-> Len(f.log)])]

execute_may_proceed_EvenIfNotDeployed(deployed) == TRUE

\* execute goes on to the nonce only if the wallet is deployed
execute_may_proceed(deployed) == deployed

\* execute from the answer of get_deployed to the await of get_nonce
execute_after_deployed(c, f, resp) ==
    LET deployed == DecodeJson(resp)
        from_address == signer_address(c.signer.val)
        g == [f EXCEPT !.exec.val = [transactions |-> f.exec.val.transactions,
                                     metadata |-> f.exec.val.metadata,
                                     safe_address |-> f.exec.val.safe_address,
                                     start |-> f.exec.val.start,
                                     deployed |-> deployed.val]]
    IN  IF deployed.tag = "Err" THEN Done(f, deployed)
        ELSE IF ~execute_may_proceed(deployed.val)
             THEN Done(g, Err("Config", "Safe " \o f.exec.val.safe_address
                                        \o " is not deployed. Call deploy() first."))
        ELSE [Emit(f, EvGetNonce(c, from_address, TypeSafe)) EXCEPT
                !.pc = "execute_nonce_wait",
                !.exec.val = [transactions |-> f.exec.val.transactions,
                              metadata |-> f.exec.val.metadata,
                              safe_address |-> f.exec.val.safe_address,
                              start |-> f.exec.val.start,
                              deployed |-> deployed.val,
                              from_address |-> from_address]]

should_aggregate_AlsoSingle(transactions) == TRUE

\* if transactions.len() == 1 { the call itself } else { aggregate }
should_aggregate(transactions) == Len(transactions) # 1

request_nonce_Zero(nonce) == Some("0")

request_nonce_Reserved(nonce) ==
    IF \E u \in DOMAIN call :
            call[u].submitted.some /\ call[u].submitted.val.request.nonce = Some(nonce)
    THEN Some(nonce \o "'")
    ELSE Some(nonce)

\* nonce: Some(nonce)
request_nonce(nonce) == Some(nonce)

SafeRequest(from_address, safe_address, final_tx, operation, nonce, signature, metadata) ==
    [tx_type |-> TypeSafe,
     from |-> from_address,
     to |-> final_tx.to,
     proxy_wallet |-> safe_address,
     data |-> final_tx.data,
     signature |-> signature,
     value |-> Some(final_tx.value),
     nonce |-> request_nonce(nonce),
     signature_params |-> Some(for_safe_execution(operation)),
     metadata |-> metadata]

\* execute from the answer of get_nonce to the signing of the struct hash
execute_after_nonce(c, f, resp) ==
    LET nonce == DecodeJson(resp)
        e == f.exec.val
        final_tx == IF should_aggregate(e.transactions)
                    THEN aggregate_transactions(e.transactions, c.contract_config.safe_multisend)
                    ELSE e.transactions[1]
        operation == IF should_aggregate(e.transactions)
                     THEN OperationDelegateCall
                     ELSE e.transactions[1].operation
        struct_hash == create_safe_struct_hash(
                           c.chain_id, e.safe_address, final_tx.to, final_tx.value,
                           final_tx.data, operation, "0", "0", "0",
                           ZERO_ADDRESS, ZERO_ADDRESS, nonce.val)
    IN  IF nonce.tag = "Err" THEN Done(f, nonce)
        ELSE [f EXCEPT !.pc = "execute_sign",
                       !.exec.val =
                [transactions |-> e.transactions, metadata |-> e.metadata,
                 safe_address |-> e.safe_address, start |-> e.start,
                 deployed |-> e.deployed, from_address |-> e.from_address,
                 nonce |-> nonce.val, final_tx |-> final_tx, operation |-> operation,
                 struct_hash |-> struct_hash]]

\* execute from the signing to the await of the submit
execute_sign_and_submit(c, f, answer, overflow_checks, now) ==
    LET e == f.exec.val
        signature == sign_eip712_struct_hash(c.signer.val, e.struct_hash, answer, overflow_checks)
        g == Emit(f, EvSign(e.struct_hash))
    IN  IF f.pc # "execute_sign" THEN f
        ELSE IF signature.tag = "Panic" THEN Panicked(g)
        ELSE IF signature.tag = "Err" THEN Done(g, signature)
        ELSE submit_transaction(c, g,
                 SafeRequest(e.from_address, e.safe_address, e.final_tx, e.operation,
                             e.nonce, signature.val, e.metadata), now)

----------------------------------------------------------------------------
(* redeem_all_positions *)

\* get_redeemable_positions: only positions with currentValue > 0 are kept
RECURSIVE filter_redeemable(_)
filter_redeemable(positions) ==
    IF positions = <<>> THEN <<>>
    ELSE IF Head(positions).current_value > 0
         THEN <<Head(positions)>> \o filter_redeemable(Tail(positions))
         ELSE filter_redeemable(Tail(positions))

RECURSIVE shl(_, _)
\* 1u32 << outcome_index
shl(x, n) == IF n = 0 THEN x ELSE shl(2 * x, n - 1)

\* the redeem_positions call made for one position
redeem_call(c, condition_id, index_sets) ==
    SafeTransaction(c.contract_config.ctf,
                    encode_redeem_positions(c.contract_config.collateral, condition_id, index_sets))

\* the for loop at the position of index k: redeem it, or return the results
redeem_all_next(c, f) ==
    IF f.loc.k > Len(f.loc.redeemable) THEN Done(f, Ok(f.loc.results))
    ELSE LET position == f.loc.redeemable[f.loc.k]
             index_set == shl(1, position.outcome_index)
         IN  execute_begin(c, f,
                 <<redeem_call(c, position.condition_id, <<index_set>>)>>,
                 Some("Redeem: " \o position.title))

\* redeem_all_positions from the answer of the positions request on
redeem_all_after_positions(c, f, resp) ==
    LET response == DecodeJson(resp)
    IN  IF response.tag = "Err" THEN Done(f, response)
        ELSE redeem_all_next(c, [f EXCEPT !.loc =
                [safe_address |-> f.loc.safe_address,
                 redeemable |-> filter_redeemable(response.val),
                 k |-> 1,
                 results |-> <<>>]])

\* what the operation does with the result of an execute call: every
\* operation hands an error on (redeem_all_positions by its `?`); a wrapper
\* hands the response on; redeem_all_positions records it and goes on
execute_finish(c, f, result) ==
    IF f.op = "redeem_all_positions" /\ result.tag = "Ok"
    THEN redeem_all_next(c, [f EXCEPT
            !.loc.results = Append(@, <<f.loc.redeemable[f.loc.k].condition_id, result.val>>),
            !.loc.k = @ + 1])
    ELSE Done(f, result)

----------------------------------------------------------------------------
(* wait_for_transaction *)

DefaultMaxPolls == 30
DefaultPollIntervalMs == 2000

loop_continues_OffByOne(i, max_polls) == i <= max_polls

\* for _ in 0..max_polls: another iteration runs while i < max_polls
loop_continues(i, max_polls) == i < max_polls

\* the top of one loop iteration, or the fall-through to Ok(None)
wait_iterate(c, f) ==
    IF loop_continues(f.loc.i, f.loc.max_polls)
    THEN [Emit(f, EvGetTransaction(c, f.args.transaction_id)) EXCEPT !.pc = "poll_wait"]
    ELSE Done(f, Ok(None))

\* whether a poll answered with a first transaction in state New or Executed
ReportsNewOrExecuted(resp) ==
    /\ resp.kind = "response"
    /\ resp.body.json
    /\ resp.body.val # <<>>
    /\ resp.body.val[1].state \in {Some("STATE_NEW"), Some("STATE_EXECUTED")}

\* a poll whose failure is taken for an empty list of transactions
get_transaction_FailureIsEmpty(resp) ==
    IF resp.kind = "transport_error" \/ ~resp.body.json THEN Ok(<<>>) ELSE Ok(resp.body.val)

\* get_transaction: the decoded list of transactions, or the error of the request
get_transaction(resp) == DecodeJson(resp)

\* what an iteration does with the answer of get_transaction
wait_inspect(f, resp) ==
    LET transactions == get_transaction(resp)
        g == [f EXCEPT !.loc.last = Some(resp),
                       !.loc.only_new_or_executed = @ /\ ReportsNewOrExecuted(resp)]
        sleep == [Emit(g, EvSleep(f.loc.poll_interval)) EXCEPT !.pc = "sleeping"]
    IN  IF transactions.tag = "Err" THEN Done(g, transactions)
        ELSE IF transactions.val = <<>> THEN sleep
        ELSE LET tx == transactions.val[1]
                 state == get_state(tx)
             IN  IF ~state.some THEN sleep
                 ELSE IF is_success(state.val) THEN Done(g, Ok(Some(tx)))
                 ELSE IF is_failed_or_invalid(state.val)
                      THEN Done(g, ErrApi(400, "Transaction " \o f.args.transaction_id
                                               \o " failed with state " \o state.val))
                 ELSE sleep

----------------------------------------------------------------------------
(* Inputs: what callers pass and what the environment answers *)

TransactionIds == {"tx-1"}

MaxPollsArgs == {None} \cup {Some(n) : n \in 0..MaxPollsArg}

PollIntervalArgs == {None, Some(10)}

\* the transactions a poll can report: the first one in any state, present,
\* missing or unrecognised; a second one to show that only the first counts
PolledStates == {None, Some("STATE_BOGUS")} \cup {Some(s) : s \in StateStrings}

PolledTx(id, state) == [transaction_id |-> id, state |-> state]

PollBodies ==
    {Garbage, Json(<<>>)}
    \cup {Json(<<PolledTx("tx-1", s)>>) : s \in PolledStates}
    \cup {Json(<<PolledTx("tx-1", s), PolledTx("tx-1", s2)>>) :
            s \in {None, Some("STATE_NEW")},
            s2 \in {Some("STATE_CONFIRMED"), Some("STATE_FAILED")}}

PollResponses ==
    {TransportError}
    \cup {Response(200, b) : b \in PollBodies}
    \cup {Response(500, b) : b \in {Garbage, Json(<<PolledTx("tx-1", Some("STATE_MINED"))>>)}}

DeployedResponses ==
    {TransportError}
    \cup {Response(200, b) : b \in {Garbage, Json(TRUE), Json(FALSE)}}
    \cup {Response(500, b) : b \in {Garbage, Json(TRUE)}}

NonceStrings == {"7", ""}

NonceResponses ==
    {TransportError}
    \cup {Response(200, b) : b \in {Garbage} \cup {Json(n) : n \in NonceStrings}}
    \cup {Response(500, b) : b \in {Garbage, Json("7")}}

SubmitOk == [transaction_id |-> "tx-1", transaction_hash |-> Some("0xhash"),
             state |-> Some("STATE_NEW")]

SubmitResponses ==
    {TransportError}
    \cup {Response(200, b) : b \in {Garbage, Json(SubmitOk)}}
    \cup {Response(500, b) : b \in {Garbage, Unreadable, Json(SubmitOk)}}

\* the calls given to execute
ConditionIds == {"0x" \o repeat("ab", 32), "0x1"}

CallInputs ==
    {SafeTransaction("0x4D97DCd97eC945f40cF65F87097ACe5EA0476045", "0x095ea7b3"),
     [to |-> "0x12", operation |-> OperationDelegateCall, data |-> "0xabcdef", value |-> "5"]}

\* all lists of at most n elements of S
RECURSIVE ListsUpTo(_, _)
ListsUpTo(S, n) ==
    IF n = 0 THEN {<<>>}
    ELSE LET shorter == ListsUpTo(S, n - 1)
         IN  shorter \cup {Append(l, x) : l \in {l \in shorter : Len(l) = n - 1}, x \in S}

TransactionLists == ListsUpTo(CallInputs, MaxCalls)

Metadatas == {None, Some("memo")}

IndexSetLists == {<<1>>, <<1, 2>>}

Amounts == {"1000000", ""}

DataApiUrls == {"https://data-api"}

Position(condition_id, title, outcome_index, current_value) ==
    [condition_id |-> condition_id, asset |-> "asset", size |-> "1.5",
     outcome |-> IF outcome_index = 0 THEN "Yes" ELSE "No",
     outcome_index |-> outcome_index, title |-> title, current_value |-> current_value]

\* the documented limit of the metadata of a request
MaxMetadataChars == 500

\* a market title as long as that limit
LongTitle == repeat(repeat("t", 25), 20)

PositionInputs ==
    {Position("0x" \o repeat("ab", 32), "A", 0, 1),
     Position("0x" \o repeat("cd", 32), LongTitle, 1, 2),
     Position("0x" \o repeat("ef", 32), "C", 1, 0)}

PositionsResponses ==
    {TransportError, Response(200, Garbage), Response(500, Garbage)}
    \cup {Response(200, Json(l)) : l \in ListsUpTo(PositionInputs, MaxPositions)}

----------------------------------------------------------------------------
(* Actions: one per segment of an operation between two await points *)

Frame(op, args) == [Idle EXCEPT !.op = op, !.args = args]

Deploy(t) ==
    /\ HasClient
    /\ call[t].pc = "idle"
    /\ call' = [call EXCEPT ![t] = deploy_begin(Client, Frame("deploy", <<>>))]
    /\ UNCHANGED client

\* the answer of get_deployed arrives; the signer and the clock are consulted
\* in the same step, since signing is synchronous
DeployDeployedResponse(t, resp) ==
    /\ call[t].pc = "deploy_deployed_wait"
    /\ call' \in
            LET f == deploy_after_deployed(Client, call[t], resp)
            IN  {[call EXCEPT ![t] =
                    deploy_sign_and_submit(Client, f, answer, overflow_checks, now)] :
                        answer \in SignerAnswers, overflow_checks \in BOOLEAN,
                        now \in ClockReadings}
    /\ UNCHANGED client

Execute(t, transactions, metadata) ==
    /\ HasClient
    /\ call[t].pc = "idle"
    /\ call' = [call EXCEPT ![t] =
            execute_begin(Client,
                Frame("execute", [transactions |-> transactions, metadata |-> metadata]),
                transactions, metadata)]
    /\ UNCHANGED client

RedeemPositions(t, condition_id, index_sets, metadata) ==
    /\ HasClient
    /\ call[t].pc = "idle"
    /\ call' = [call EXCEPT ![t] =
            execute_begin(Client,
                Frame("redeem_positions",
                      [condition_id |-> condition_id, index_sets |-> index_sets,
                       metadata |-> metadata]),
                <<redeem_call(Client, condition_id, index_sets)>>, metadata)]
    /\ UNCHANGED client

SplitPosition(t, condition_id, amount, metadata) ==
    /\ HasClient
    /\ call[t].pc = "idle"
    /\ call' = [call EXCEPT ![t] =
            execute_begin(Client,
                Frame("split_position",
                      [condition_id |-> condition_id, amount |-> amount, metadata |-> metadata]),
                <<SafeTransaction(Client.contract_config.ctf,
                      encode_split_position(Client.contract_config.collateral,
                                            condition_id, amount))>>,
                metadata)]
    /\ UNCHANGED client

MergePositions(t, condition_id, amount, metadata) ==
    /\ HasClient
    /\ call[t].pc = "idle"
    /\ call' = [call EXCEPT ![t] =
            execute_begin(Client,
                Frame("merge_positions",
                      [condition_id |-> condition_id, amount |-> amount, metadata |-> metadata]),
                <<SafeTransaction(Client.contract_config.ctf,
                      encode_merge_positions(Client.contract_config.collateral,
                                             condition_id, amount))>>,
                metadata)]
    /\ UNCHANGED client

ExecuteDeployedResponse(t, resp) ==
    /\ call[t].pc = "execute_deployed_wait"
    /\ call' = [call EXCEPT ![t] = execute_after_deployed(Client, call[t], resp)]
    /\ UNCHANGED client

ExecuteNonceResponse(t, resp) ==
    /\ call[t].pc = "execute_nonce_wait"
    /\ call' \in
            LET f == execute_after_nonce(Client, call[t], resp)
            IN  {[call EXCEPT ![t] =
                    execute_sign_and_submit(Client, f, answer, overflow_checks, now)] :
                        answer \in SignerAnswers, overflow_checks \in BOOLEAN,
                        now \in ClockReadings}
    /\ UNCHANGED client

SubmitResponse(t, resp) ==
    /\ call[t].pc = "submit_wait"
    /\ call' = [call EXCEPT ![t] = execute_finish(Client, call[t], submit_result(resp))]
    /\ UNCHANGED client

RedeemAllPositions(t, data_api_url) ==
    /\ HasClient
    /\ call[t].pc = "idle"
    /\ LET f == Frame("redeem_all_positions", [data_api_url |-> data_api_url])
           safe_address == get_expected_safe(Client)
       IN  call' = [call EXCEPT ![t] =
               IF safe_address.tag = "Err" THEN Done(f, safe_address)
               ELSE [Emit(f, EvGetPositions(data_api_url, safe_address.val)) EXCEPT
                       !.pc = "positions_wait",
                       !.loc = [safe_address |-> safe_address.val]]]
    /\ UNCHANGED client

PositionsResponse(t, resp) ==
    /\ call[t].pc = "positions_wait"
    /\ call' = [call EXCEPT ![t] = redeem_all_after_positions(Client, call[t], resp)]
    /\ UNCHANGED client

WaitForTransaction(t, transaction_id, max_polls, poll_interval_ms) ==
    /\ HasClient
    /\ call[t].pc = "idle"
    /\ call' = [call EXCEPT ![t] =
            wait_iterate(Client,
                [Frame("wait_for_transaction",
                       [transaction_id |-> transaction_id,
                        max_polls |-> max_polls,
                        poll_interval_ms |-> poll_interval_ms])
                 EXCEPT !.loc = [max_polls |-> unwrap_or(max_polls, DefaultMaxPolls),
                                 poll_interval |-> unwrap_or(poll_interval_ms, DefaultPollIntervalMs),
                                 i |-> 0,
                                 last |-> None,
                                 only_new_or_executed |-> TRUE]])]
    /\ UNCHANGED client

PollResponse(t, resp) ==
    /\ call[t].pc = "poll_wait"
    /\ call' = [call EXCEPT ![t] = wait_inspect(call[t], resp)]
    /\ UNCHANGED client

\* tokio::time::sleep(poll_interval) is over: the iteration ends
Wake(t) ==
    /\ call[t].pc = "sleeping"
    /\ call' = [call EXCEPT ![t] =
            wait_iterate(Client, [call[t] EXCEPT !.loc.i = @ + 1, !.loc.last = None])]
    /\ UNCHANGED client

\* the caller takes the result (or the panic unwinds); the frame is dropped
Return(t) ==
    /\ call[t].pc \in {"done", "panicked"}
    /\ call' = [call EXCEPT ![t] = Idle]
    /\ UNCHANGED client

----------------------------------------------------------------------------

Init ==
    /\ client = None
    /\ call = [t \in Callers |-> Idle]

Next ==
    \/ \E url \in RelayerUrls, chain_id \in ChainIds, signer \in Signers, creds \in BuilderCreds :
            New(url, chain_id, signer, creds)
    \/ \E t \in Callers :
        \/ Deploy(t)
        \/ \E resp \in DeployedResponses : DeployDeployedResponse(t, resp)
        \/ \E transactions \in TransactionLists, metadata \in Metadatas :
                Execute(t, transactions, metadata)
        \/ \E condition_id \in ConditionIds, index_sets \in IndexSetLists, metadata \in Metadatas :
                RedeemPositions(t, condition_id, index_sets, metadata)
        \/ \E condition_id \in ConditionIds, amount \in Amounts, metadata \in Metadatas :
                SplitPosition(t, condition_id, amount, metadata)
        \/ \E condition_id \in ConditionIds, amount \in Amounts, metadata \in Metadatas :
                MergePositions(t, condition_id, amount, metadata)
        \/ \E resp \in DeployedResponses : ExecuteDeployedResponse(t, resp)
        \/ \E resp \in NonceResponses : ExecuteNonceResponse(t, resp)
        \/ \E resp \in SubmitResponses : SubmitResponse(t, resp)
        \/ \E data_api_url \in DataApiUrls : RedeemAllPositions(t, data_api_url)
        \/ \E resp \in PositionsResponses : PositionsResponse(t, resp)
        \/ \E id \in TransactionIds, max_polls \in MaxPollsArgs, interval \in PollIntervalArgs :
                WaitForTransaction(t, id, max_polls, interval)
        \/ \E resp \in PollResponses : PollResponse(t, resp)
        \/ Wake(t)
        \/ Return(t)

Spec == Init /\ [][Next]_vars

----------------------------------------------------------------------------
(* Properties of wait_for_transaction *)

IsWaiting(f) == f.op = "wait_for_transaction"

\* the polls a call has issued so far
Polls(f) == CountKind(f.log, "get_transaction")

\* the state string of the first transaction a poll answered with, if any
FirstReportedState(resp) ==
    IF resp.kind = "response" /\ resp.body.json /\ resp.body.val # <<>>
    THEN resp.body.val[1].state
    ELSE None

ReturnedTransaction(f) ==
    /\ IsWaiting(f)
    /\ f.pc = "done"
    /\ f.ret.val.tag = "Ok"
    /\ f.ret.val.val.some

\* C1: wait_for_transaction returns Ok(Some(tx)) only when tx is the first
\* transaction of the poll just answered and that poll reported the state
\* Mined or Confirmed; a transaction in any other state, or with a missing
\* or unrecognised state, is never returned.
C1_SuccessOnlyWhenMinedOrConfirmed ==
    \A t \in Callers :
        LET f == call[t]
        IN  ReturnedTransaction(f) =>
                /\ f.loc.last.some
                /\ FirstReportedState(f.loc.last.val)
                       \in {Some("STATE_MINED"), Some("STATE_CONFIRMED")}
                /\ f.ret.val.val.val = f.loc.last.val.body.val[1]

\* a transaction was returned as mined after an earlier poll had not settled
C1_Witness ==
    \E t \in Callers :
        /\ ReturnedTransaction(call[t])
        /\ call[t].ret.val.val.val.state = Some("STATE_MINED")
        /\ Polls(call[t]) = 2

ReportedFailure(f) ==
    /\ IsWaiting(f)
    /\ f.loc.last.some
    /\ FirstReportedState(f.loc.last.val) \in {Some("STATE_FAILED"), Some("STATE_INVALID")}

\* C2: the poll that reports Failed or Invalid ends the call with an error:
\* the call is finished as soon as that answer is handled, the last thing it
\* did is that poll (no sleep, no further poll), and a finished call does
\* nothing more until its result is taken.
C2_ErrorAtFirstFailedOrInvalid ==
    /\ [](\A t \in Callers :
            LET f == call[t]
            IN  ReportedFailure(f) =>
                    /\ f.pc = "done"
                    /\ f.ret.val.tag = "Err"
                    /\ f.log[Len(f.log)].kind = "get_transaction"
                    /\ Polls(f) = f.loc.i + 1)
    /\ [][\A t \in Callers :
            (IsWaiting(call[t]) /\ call[t].pc = "done") => call'[t] = Idle]_vars

\* a failure was reported at the second poll of a call allowed thirty polls
C2_Witness ==
    \E t \in Callers :
        /\ ReportedFailure(call[t])
        /\ call[t].pc = "done"
        /\ call[t].ret.val.tag = "Err"
        /\ Polls(call[t]) = 2
        /\ call[t].loc.max_polls = DefaultMaxPolls

\* C3: a call never issues more than max_polls polls; while every answered
\* poll reported New or Executed, the call can only finish with Ok(None), and
\* does so after exactly max_polls polls; Ok(None) is never returned after
\* fewer polls; once the sleep after the last allowed poll is over, the call
\* returns Ok(None).
C3_NoneAfterExactlyMaxPolls ==
    /\ [](\A t \in Callers :
            LET f == call[t]
            IN  IsWaiting(f) =>
                    /\ Polls(f) <= f.loc.max_polls
                    /\ (f.pc = "done" /\ f.loc.only_new_or_executed) =>
                            (f.ret.val = Ok(None) /\ Polls(f) = f.loc.max_polls)
                    /\ (f.pc = "done" /\ f.ret.val = Ok(None)) =>
                            Polls(f) = f.loc.max_polls)
    /\ [][\A t \in Callers :
            (/\ IsWaiting(call[t])
             /\ call[t].pc = "sleeping"
             /\ Polls(call[t]) = call[t].loc.max_polls)
            => (call'[t].pc = "done" /\ call'[t].ret = Some(Ok(None)))]_vars

\* two polls were allowed, both reported New or Executed, and None came back
C3_Witness ==
    \E t \in Callers :
        /\ IsWaiting(call[t])
        /\ call[t].pc = "done"
        /\ call[t].ret.val = Ok(None)
        /\ call[t].loc.only_new_or_executed
        /\ call[t].loc.max_polls = 2
        /\ Polls(call[t]) = 2

----------------------------------------------------------------------------
(* Properties of redeem_all_positions and of the fail-fast checks *)

\* a redeem_all_positions call that got its list of redeemable positions
RedeemingAll(f) == f.op = "redeem_all_positions" /\ "redeemable" \in DOMAIN f.loc

\* C4: when redeem_all_positions returns, it has gone through every
\* redeemable position and returns the collected per-position results, even
\* if redeeming one of the positions failed.
C4_BatchContinuesPastFailure ==
    \A t \in Callers :
        LET f == call[t]
        IN  (RedeemingAll(f) /\ f.pc = "done") =>
                /\ f.loc.k > Len(f.loc.redeemable)
                /\ f.ret.val.tag = "Ok"

\* the first of two positions was redeemed, the submit of the second one was
\* refused, and the call returned that error alone
C4_Witness ==
    \E t \in Callers :
        /\ RedeemingAll(call[t])
        /\ call[t].pc = "done"
        /\ Len(call[t].loc.redeemable) = 2
        /\ call[t].loc.k = 2
        /\ Len(call[t].loc.results) = 1
        /\ call[t].ret.val.tag = "Err"
        /\ call[t].ret.val.kind = "Api"

PublicOperations ==
    {"deploy", "execute", "redeem_positions", "split_position", "merge_positions",
     "redeem_all_positions"}

\* the call ended with the error of a missing signer, of missing builder
\* credentials or of an empty call list
FailedOnConfiguration(f) ==
    /\ f.op \in PublicOperations
    /\ f.pc = "done"
    /\ f.ret.val.tag = "Err"
    /\ f.ret.val.kind \in {"AuthRequired", "InvalidParameter"}

\* C5: a public operation that ends with the error of a missing signer, of
\* missing builder credentials or of an empty call list has issued no
\* network call.
C5_ConfigurationErrorsBeforeNetwork ==
    \A t \in Callers :
        FailedOnConfiguration(call[t]) => NetworkCalls(call[t].log) = 0

\* redeem_all_positions fetched the positions and only then found that the
\* builder credentials are missing
C5_Witness ==
    \E t \in Callers :
        /\ FailedOnConfiguration(call[t])
        /\ call[t].op = "redeem_all_positions"
        /\ call[t].ret.val.kind = "AuthRequired"
        /\ CountKind(call[t].log, "get_positions") = 1

----------------------------------------------------------------------------
(* Properties of deploy and execute *)

\* the operations that run execute
ExecuteOperations ==
    {"execute", "redeem_positions", "split_position", "merge_positions",
     "redeem_all_positions"}

\* the call is inside execute, past its parameter checks
InExecute(f) == f.op \in ExecuteOperations /\ f.exec.some

\* the events of kind `kind` that the current execute call has logged
CountSince(f, kind) ==
    Cardinality({i \in DOMAIN f.log : i > f.exec.val.start /\ f.log[i].kind = kind})

\* the answer of the deployed check, once it has been decoded
KnowsDeployed(f) == f.exec.some /\ "deployed" \in DOMAIN f.exec.val

\* C6: execute with a signer and builder credentials but no call ends at once
\* with an InvalidParameter error and has sent nothing: no deployed check, no
\* nonce fetch, no signature, no submit.
C6_EmptyCallListRejected ==
    \A t \in Callers :
        LET f == call[t]
        IN  (/\ f.op = "execute"
             /\ f.args.transactions = <<>>
             /\ Client.signer.some
             /\ Client.builder_creds.some) =>
                /\ f.pc = "done"
                /\ f.ret.val.tag = "Err"
                /\ f.ret.val.kind = "InvalidParameter"
                /\ f.log = <<>>
                /\ f.submitted = None

C6_Witness ==
    \E t \in Callers :
        /\ call[t].op = "execute"
        /\ call[t].args.transactions = <<>>
        /\ Client.signer.some
        /\ Client.builder_creds.some
        /\ call[t].pc = "done"
        /\ call[t].ret.val.kind = "InvalidParameter"

\* C7: deploy asks whether the wallet derived from the signer is deployed
\* before anything else; it signs and submits only after the answer false,
\* and what it submits is a SAFE-CREATE request; after the answer true it
\* has ended with an error, with nothing signed and nothing submitted.
C7_DeployOnlyIfNotDeployed ==
    \A t \in Callers :
        LET f == call[t]
        IN  f.op = "deploy" =>
                /\ (CountKind(f.log, "sign") > 0 \/ CountKind(f.log, "submit") > 0) =>
                        /\ KnowsDeployed(f)
                        /\ ~f.exec.val.deployed
                        /\ f.log[1] = EvGetDeployed(Client, get_expected_safe(Client).val)
                /\ f.submitted.some => f.submitted.val.request.tx_type = "SAFE-CREATE"
                /\ (KnowsDeployed(f) /\ f.exec.val.deployed) =>
                        /\ f.pc = "done"
                        /\ f.ret.val.tag = "Err"
                        /\ CountKind(f.log, "sign") = 0
                        /\ CountKind(f.log, "submit") = 0
                        /\ f.submitted = None

\* the wallet was reported as not deployed and the creation was submitted
C7_Witness ==
    \E t \in Callers :
        /\ call[t].op = "deploy"
        /\ call[t].pc = "submit_wait"
        /\ ~call[t].exec.val.deployed
        /\ call[t].submitted.val.request.tx_type = "SAFE-CREATE"

\* C8: after a deployed check that answered false, execute has ended with an
\* error without fetching a nonce, signing or submitting; it fetches the
\* nonce, signs and submits only after a deployed check that answered true.
C8_ExecuteOnlyIfDeployed ==
    \A t \in Callers :
        LET f == call[t]
        IN  InExecute(f) =>
                /\ (KnowsDeployed(f) /\ ~f.exec.val.deployed) =>
                        /\ f.pc = "done"
                        /\ f.ret.val.tag = "Err"
                        /\ CountSince(f, "get_nonce") = 0
                        /\ CountSince(f, "sign") = 0
                        /\ CountSince(f, "submit") = 0
                /\ (\/ CountSince(f, "get_nonce") > 0
                    \/ CountSince(f, "sign") > 0
                    \/ CountSince(f, "submit") > 0) =>
                        /\ KnowsDeployed(f)
                        /\ f.exec.val.deployed
                        /\ CountSince(f, "get_deployed") = 1

\* execute stopped at a wallet that is not deployed
C8_Witness ==
    \E t \in Callers :
        /\ call[t].op = "execute"
        /\ KnowsDeployed(call[t])
        /\ ~call[t].exec.val.deployed
        /\ call[t].pc = "done"
        /\ call[t].ret.val.kind = "Config"

\* the request that the current execute call has submitted
SubmittedByExecute(f) == InExecute(f) /\ f.pc = "submit_wait"

\* C9: the request execute submits carries the nonce that the one nonce
\* fetch of this same call returned, a fetch by the signer's address with
\* type SAFE; the digest that was signed is the one computed over the nonce
\* in the request; the client itself holds no nonce.
C9_NonceFetchedPerCall ==
    /\ HasClient =>
            DOMAIN Client = {"relayer_url", "chain_id", "signer", "builder_creds",
                             "contract_config"}
    /\ \A t \in Callers :
        LET f == call[t]
            e == f.exec.val
            r == f.submitted.val.request
        IN  SubmittedByExecute(f) =>
                /\ CountSince(f, "get_nonce") = 1
                /\ f.log[Len(f.log) - 2] =
                        EvGetNonce(Client, "0x" \o Client.signer.val.address, "SAFE")
                /\ r.nonce = Some(e.nonce)
                /\ e.struct_hash =
                        create_safe_struct_hash(Client.chain_id, r.proxy_wallet, r.to,
                            r.value.val, r.data, e.operation, "0", "0", "0",
                            ZERO_ADDRESS, ZERO_ADDRESS, r.nonce.val)

\* a request was submitted with the nonce 7 that the relayer had answered
C9_Witness ==
    \E t \in Callers :
        /\ SubmittedByExecute(call[t])
        /\ call[t].op = "execute"
        /\ call[t].exec.val.nonce = "7"
        /\ call[t].submitted.val.request.nonce = Some("7")

\* C10: a request submitted by execute for a single call carries that call's
\* destination, data, value and call kind; a request submitted for any other
\* number of calls carries the multisend address, the multiSend encoding of
\* the calls, the value "0" and the call kind DelegateCall.
C10_AggregatesIffSeveralCalls ==
    \A t \in Callers :
        LET f == call[t]
            txs == f.args.transactions
            r == f.submitted.val.request
        IN  (SubmittedByExecute(f) /\ f.op = "execute") =>
                IF Len(txs) = 1
                THEN /\ r.to = txs[1].to
                     /\ r.data = txs[1].data
                     /\ r.value = Some(txs[1].value)
                     /\ r.signature_params.val.operation = Some(to_string(txs[1].operation))
                     /\ f.exec.val.operation = txs[1].operation
                ELSE /\ Len(txs) > 1
                     /\ r.to = Client.contract_config.safe_multisend
                     /\ r.data = aggregate_transactions(txs, r.to).data
                     /\ r.value = Some("0")
                     /\ r.signature_params.val.operation = Some("1")
                     /\ f.exec.val.operation = OperationDelegateCall

\* two calls, the second a delegate call with value 5, went out as one
C10_Witness ==
    \E t \in Callers :
        /\ SubmittedByExecute(call[t])
        /\ call[t].op = "execute"
        /\ Len(call[t].args.transactions) = 2
        /\ call[t].args.transactions[2].value = "5"
        /\ call[t].submitted.val.request.value = Some("0")

----------------------------------------------------------------------------
(* Properties of RelayerClient::new *)

\* C11: construction yields a client only for chain id 137 or 80002, and the
\* client then holds the one contract configuration of that chain; for any
\* other chain id it yields the Config error naming that chain id, and no
\* client.
C11_OnlySupportedChainIds ==
    client.some =>
        \/ /\ client.val.tag = "Ok"
           /\ Client.chain_id = 137
           /\ Client.contract_config = mainnet_relayer_config
           /\ Client.contract_config.ctf = "0x4D97DCd97eC945f40cF65F87097ACe5EA0476045"
           /\ Client.contract_config.collateral = "0x2791Bca1f2de4661ED88A30C99A7a9449Aa84174"
        \/ /\ client.val.tag = "Ok"
           /\ Client.chain_id = 80002
           /\ Client.contract_config = amoy_relayer_config
           /\ Client.contract_config.ctf = "0x69308FB512518e39F9b16112fA8d994F4e2Bf8bB"
           /\ Client.contract_config.collateral = "0x9c4e1703476e875070ee25b56a58b008cfb8fa78"
        \/ /\ client.val.tag = "Err"
           /\ client.val.kind = "Config"
           /\ \E chain_id \in ChainIds \ {137, 80002} :
                  client.val.message = "Unsupported chain_id: " \o to_string(chain_id)

\* construction was refused for chain id 138
C11_Witness ==
    /\ client.some
    /\ client.val.tag = "Err"
    /\ client.val.message = "Unsupported chain_id: 138"

----------------------------------------------------------------------------
(* Properties of the HTTP endpoints *)

\* an HTTP answer whose status is outside 200..299
IsNon2xx(resp) == resp.kind = "response" /\ ~status_is_success(resp.status)

Non2xx(responses) == {resp \in responses : IsNon2xx(resp)}

\* the call has returned the API error with the status and the text of resp
ReturnsUpstreamError(f, resp) ==
    /\ f.pc = "done"
    /\ f.ret = Some(ErrApi(resp.status, text_or_default(resp)))

\* C12: whenever an operation handles a non-2xx answer of an endpoint
\* (deployed, nonce, transaction, submit, positions), it returns in that step
\* the API error carrying the status and the body text of that answer.
C12_Non2xxYieldsApiError ==
    [][\A t \in Callers :
        /\ \A resp \in Non2xx(DeployedResponses) :
                DeployDeployedResponse(t, resp) \/ ExecuteDeployedResponse(t, resp)
                    => ReturnsUpstreamError(call'[t], resp)
        /\ \A resp \in Non2xx(NonceResponses) :
                ExecuteNonceResponse(t, resp) => ReturnsUpstreamError(call'[t], resp)
        /\ \A resp \in Non2xx(PollResponses) :
                PollResponse(t, resp) => ReturnsUpstreamError(call'[t], resp)
        /\ \A resp \in Non2xx(SubmitResponses) :
                SubmitResponse(t, resp) => ReturnsUpstreamError(call'[t], resp)
        /\ \A resp \in Non2xx(PositionsResponses) :
                PositionsResponse(t, resp) => ReturnsUpstreamError(call'[t], resp)]_vars

\* a poll answered with status 500 and a Mined transaction, and the wait
\* returned that transaction as its success
C12_Witness ==
    \E t \in Callers :
        /\ IsWaiting(call[t])
        /\ call[t].pc = "done"
        /\ call[t].loc.last.some
        /\ IsNon2xx(call[t].loc.last.val)
        /\ call[t].ret.val.tag = "Ok"

----------------------------------------------------------------------------
(* Properties of RelayerTransactionState *)

\* the recognised state of the first transaction of the last poll, if any
LastPolledState(f) ==
    IF IsWaiting(f) /\ f.loc.last.some
    THEN get_state([state |-> FirstReportedState(f.loc.last.val)])
    ELSE None

\* C13: for the state a poll has reported, is_success holds exactly for
\* Mined and Confirmed, is_terminal holds exactly for Mined, Confirmed,
\* Failed and Invalid (New and Executed being the only non-terminal states),
\* and so every success state is terminal.
C13_SuccessAndTerminalStates ==
    \A t \in Callers :
        LastPolledState(call[t]).some =>
            LET state == LastPolledState(call[t]).val
            IN  /\ is_success(state) <=> state \in {"Mined", "Confirmed"}
                /\ is_terminal(state) <=> state \in {"Mined", "Confirmed", "Failed", "Invalid"}
                /\ ~is_terminal(state) <=> state \in {"New", "Executed"}
                /\ is_success(state) => is_terminal(state)

\* a poll reported Mined: the wait returned the transaction as a success
\* although the state is not terminal
C13_Witness ==
    \E t \in Callers :
        /\ ReturnedTransaction(call[t])
        /\ LastPolledState(call[t]) = Some("Mined")
        /\ ~is_terminal("Mined")

----------------------------------------------------------------------------
(* Properties of the submitted request *)

\* C14: no request submitted to the relayer carries metadata longer than 500
\* characters, whichever operation built it.
C14_MetadataAtMost500Chars ==
    \A t \in Callers :
        LET f == call[t]
        IN  (f.submitted.some /\ f.submitted.val.request.metadata.some) =>
                Len(f.submitted.val.request.metadata.val) <= MaxMetadataChars

\* redeem_all_positions has submitted the redemption of the position with
\* the long title
C14_Witness ==
    \E t \in Callers :
        /\ RedeemingAll(call[t])
        /\ call[t].pc = "submit_wait"
        /\ call[t].submitted.val.request.metadata = Some("Redeem: " \o LongTitle)
        /\ Len("Redeem: " \o LongTitle) = 508

----------------------------------------------------------------------------
(* Properties of the errors of wait_for_transaction *)

ReturnedError(f) == f.pc = "done" /\ f.ret.val.tag = "Err"

\* C15: a wait that observed Failed or Invalid returns an error of the kind
\* Transaction-Failed, which is not the kind Api; and a wait returns an Api
\* error with an HTTP status only if the answer it received had that status.
C15_FailureIsNotAnApiError ==
    \A t \in Callers :
        LET f == call[t]
        IN  /\ (ReportedFailure(f) /\ f.pc = "done") =>
                    /\ ReturnedError(f)
                    /\ f.ret.val.kind = "TransactionFailed"
            /\ (IsWaiting(f) /\ ReturnedError(f) /\ f.ret.val.kind = "Api") =>
                    /\ f.loc.last.some
                    /\ f.loc.last.val.kind = "response"
                    /\ f.loc.last.val.status = f.ret.val.status

\* a poll answered 200 with a Failed transaction and the wait returned an
\* Api error with status 400
C15_Witness ==
    \E t \in Callers :
        LET f == call[t]
        IN  /\ ReportedFailure(f)
            /\ ReturnedError(f)
            /\ f.ret.val.kind = "Api"
            /\ f.ret.val.status = 400
            /\ f.loc.last.val.status = 200
            /\ f.ret.val.message = "Transaction tx-1 failed with state Failed"

----------------------------------------------------------------------------
(* Two callers sharing one client: every operation takes &self, so several *)
(* execute calls can be in flight at once.                                  *)

ConcCallers == {"a", "b"}

ConcTransactionLists == {l \in TransactionLists : Len(l) = 1}

ConcDeployedResponses == {Response(200, Json(TRUE)), Response(200, Json(FALSE))}

ConcNonceResponses == {Response(200, Json(n)) : n \in NonceStrings}

ConcSubmitResponses == {Response(200, Json(SubmitOk)), Response(500, Garbage)}

ConcInit ==
    /\ client = None
    /\ call = [t \in ConcCallers |-> Idle]

ConcNext ==
    \/ \E url \in RelayerUrls, signer \in Signers \ {None}, creds \in BuilderCreds \ {None} :
            New(url, 137, signer, creds)
    \/ \E t \in ConcCallers :
        \/ \E transactions \in ConcTransactionLists : Execute(t, transactions, None)
        \/ \E resp \in ConcDeployedResponses : ExecuteDeployedResponse(t, resp)
        \/ \E resp \in ConcNonceResponses : ExecuteNonceResponse(t, resp)
        \/ \E resp \in ConcSubmitResponses : SubmitResponse(t, resp)
        \/ Return(t)

ConcSpec == ConcInit /\ [][ConcNext]_vars

\* the call has sent its request and the relayer has not answered yet
AwaitsSubmit(f) == InExecute(f) /\ f.pc = "submit_wait"

\* C16: the client does not serialize execute calls and reserves no nonce:
\* when two calls have a request in flight at the same time, each request
\* carries the nonce its own fetch returned, with the same signer and wallet;
\* so two calls whose fetches returned the same nonce have both submitted
\* that nonce.
C16_ConcurrentCallsShareNonce ==
    \A t \in ConcCallers, u \in ConcCallers :
        (t # u /\ AwaitsSubmit(call[t]) /\ AwaitsSubmit(call[u])) =>
            LET r == call[t].submitted.val.request
                s == call[u].submitted.val.request
            IN  /\ r.nonce = Some(call[t].exec.val.nonce)
                /\ s.nonce = Some(call[u].exec.val.nonce)
                /\ r.from = s.from
                /\ r.proxy_wallet = s.proxy_wallet
                /\ call[t].exec.val.nonce = call[u].exec.val.nonce => r.nonce = s.nonce

\* both calls have submitted a request with the nonce "7" for the same wallet
\* and neither submit has been answered
C16_Witness ==
    /\ AwaitsSubmit(call["a"])
    /\ AwaitsSubmit(call["b"])
    /\ call["a"].submitted.val.request.nonce = Some("7")
    /\ call["b"].submitted.val.request.nonce = Some("7")
    /\ call["a"].submitted.val.request.proxy_wallet = call["b"].submitted.val.request.proxy_wallet

----------------------------------------------------------------------------
(* The encoders and the typed-data hasher as functions of their inputs: a  *)
(* caller holds the arguments of one call; the step applies the function.  *)

MaxIndexSets == 2

\* the arguments of create_safe_struct_hash as execute passes them
HashInput(chain_id, safe, to, value, data, operation, nonce) ==
    [chain_id |-> chain_id, safe |-> safe, to |-> to, value |-> value, data |-> data,
     operation |-> operation, nonce |-> nonce]

BaseHashInput ==
    HashInput(137, "0x" \o repeat("aa", 20), "0x" \o repeat("12", 20), "0", "0xabcdef",
              OperationCall, "7")

\* 2^128, one more than u128::MAX
TwoTo128 == "340282366920938463463374607431768211456"

\* the base input and inputs that differ from it in one field
HashInputs ==
    {BaseHashInput}
    \cup {[BaseHashInput EXCEPT !.chain_id = 80002],
          [BaseHashInput EXCEPT !.safe = "0x" \o repeat("bb", 20)],
          [BaseHashInput EXCEPT !.to = "0x" \o repeat("34", 20)],
          [BaseHashInput EXCEPT !.value = "1"],
          [BaseHashInput EXCEPT !.value = TwoTo128],
          [BaseHashInput EXCEPT !.data = "0xabcd"],
          [BaseHashInput EXCEPT !.data = "0x"],
          [BaseHashInput EXCEPT !.operation = OperationDelegateCall],
          [BaseHashInput EXCEPT !.nonce = "8"]}

\* the digest execute signs for the input x
ExecutionDigest(x) ==
    create_safe_struct_hash(x.chain_id, x.safe, x.to, x.value, x.data, x.operation,
                            "0", "0", "0", ZERO_ADDRESS, ZERO_ADDRESS, x.nonce)

Collaterals ==
    {mainnet_relayer_config.collateral, amoy_relayer_config.collateral, "0x1"}

IndexSetValues == {1, 2, 2147483647}

Bytes32Inputs ==
    ConditionIds
    \cup {"", "zz", repeat("cd", 32), "0x" \o repeat("AB", 32), "0x" \o repeat("ab", 33)}

NumericStrings ==
    {"0", "5", "255", "007", "+5", "", "abc", "12abc", "-1", " 5", "5 ", "1.5", "0x10",
     U128MaxDecimal, TwoTo128}

\* every value of a u8
Bytes == 0..255

\* calls to aggregate: data of 11 bytes (85 + 11 is a multiple of 32), a short
\* destination with a delegate call, and a call without data
AggregateCalls ==
    {SafeTransaction(mainnet_relayer_config.ctf, "0x" \o repeat("a1", 11)),
     [to |-> "0x12", operation |-> OperationDelegateCall, data |-> "0xABCDEF", value |-> "5"],
     [to |-> "0x" \o repeat("34", 20), operation |-> OperationCall, data |-> "", value |-> "255"]}

PureCall(op, args) == [Frame(op, args) EXCEPT !.pc = "called"]

PureCalls ==
    {PureCall("create_safe_struct_hash", [first |-> x, second |-> y]) :
        x \in HashInputs, y \in HashInputs}
    \cup {PureCall("encode_redeem_positions",
                   [collateral_token |-> c, condition_id |-> id, index_sets |-> l]) :
            c \in Collaterals, id \in ConditionIds, l \in ListsUpTo(IndexSetValues, MaxIndexSets)}
    \cup {PureCall("encode_bytes32", [value |-> v]) : v \in Bytes32Inputs}
    \cup {PureCall("encode_uint256_from_str", [value |-> v]) : v \in NumericStrings}
    \cup {PureCall("encode_uint256", [value |-> v]) : v \in NumericStrings}
    \cup {PureCall("aggregate_transactions",
                   [transactions |-> <<[to |-> "0x12", operation |-> OperationCall,
                                        data |-> "0xabcdef", value |-> v],
                                       SafeTransaction(mainnet_relayer_config.ctf, "0x095ea7b3")>>,
                    multisend_address |-> mainnet_relayer_config.safe_multisend]) :
            v \in NumericStrings}
    \cup {PureCall("remap_recovery_byte", [v |-> v, overflow_checks |-> b]) :
            v \in Bytes, b \in BOOLEAN}
    \cup {PureCall("aggregate_transactions",
                   [transactions |-> l,
                    multisend_address |-> mainnet_relayer_config.safe_multisend]) :
            l \in ListsUpTo(AggregateCalls, MaxCalls)}

Called(t, op) == call[t].op = op /\ call[t].pc = "called"

CreateSafeStructHash(t) ==
    /\ Called(t, "create_safe_struct_hash")
    /\ call' = [call EXCEPT ![t] =
            Done(@, <<ExecutionDigest(@.args.first), ExecutionDigest(@.args.second)>>)]
    /\ UNCHANGED client

EncodeRedeemPositions(t) ==
    /\ Called(t, "encode_redeem_positions")
    /\ call' = [call EXCEPT ![t] =
            Done(@, encode_redeem_positions(@.args.collateral_token, @.args.condition_id,
                                            @.args.index_sets))]
    /\ UNCHANGED client

EncodeBytes32(t) ==
    /\ Called(t, "encode_bytes32")
    /\ call' = [call EXCEPT ![t] = Done(@, encode_bytes32(@.args.value))]
    /\ UNCHANGED client

EncodeUint256FromStr(t) ==
    /\ Called(t, "encode_uint256_from_str")
    /\ call' = [call EXCEPT ![t] = Done(@, encode_uint256_from_str(@.args.value))]
    /\ UNCHANGED client

EncodeUint256(t) ==
    /\ Called(t, "encode_uint256")
    /\ call' = [call EXCEPT ![t] = Done(@, encode_uint256(@.args.value))]
    /\ UNCHANGED client

AggregateTransactions(t) ==
    /\ Called(t, "aggregate_transactions")
    /\ call' = [call EXCEPT ![t] =
            Done(@, aggregate_transactions(@.args.transactions, @.args.multisend_address))]
    /\ UNCHANGED client

\* the match of sign_eip712_struct_hash on the recovery byte of the signature
RemapRecoveryByte(t) ==
    /\ Called(t, "remap_recovery_byte")
    /\ call' = [call EXCEPT ![t] =
            LET v == remap_recovery_byte(@.args.v, @.args.overflow_checks)
            IN  IF v.some THEN Done(@, v.val) ELSE Panicked(@)]
    /\ UNCHANGED client

PureInit ==
    /\ client = None
    /\ call \in [Callers -> PureCalls]

PureNext ==
    \E t \in Callers :
        \/ CreateSafeStructHash(t)
        \/ EncodeRedeemPositions(t)
        \/ EncodeBytes32(t)
        \/ EncodeUint256FromStr(t)
        \/ EncodeUint256(t)
        \/ AggregateTransactions(t)
        \/ RemapRecoveryByte(t)

PureSpec == PureInit /\ [][PureNext]_vars

\* the function `op` has returned
Returned(f, op) == f.op = op /\ f.pc = "done"

RECURSIVE WordValue(_)
\* the number a hex string denotes
WordValue(w) ==
    IF w = "" THEN 0
    ELSE 16 * WordValue(SubSeq(w, 1, Len(w) - 1)) + HexValue[Char(w, Len(w))]

\* lowercase hex digits only
IsLowerHex(s) == AllHex(s) /\ to_lowercase(s) = s

\* the k-th 32-byte word after the selector of "0x"-prefixed call data
CallDataWord(d, k) == SubSeq(d, 11 + 64 * (k - 1), 10 + 64 * k)

----------------------------------------------------------------------------
(* Properties of the typed-data hasher and the call encoders *)

\* C17: two execution digests computed from inputs that differ in at least
\* one of to, value, data, operation, nonce, wallet address and chain id are
\* different, keccak256 being taken collision-free.
C17_DistinctInputsDistinctDigests ==
    \A t \in Callers :
        LET f == call[t]
        IN  (Returned(f, "create_safe_struct_hash") /\ f.args.first # f.args.second) =>
                f.ret.val[1] # f.ret.val[2]

\* the inputs differ only in value, 0 against 2^128, and the digests are equal
C17_Witness ==
    \E t \in Callers :
        LET f == call[t]
        IN  /\ Returned(f, "create_safe_struct_hash")
            /\ f.args.first = BaseHashInput
            /\ f.args.second = [BaseHashInput EXCEPT !.value = TwoTo128]
            /\ f.ret.val[1] = f.ret.val[2]

C19_Bytes32IsAlways64HexChars ==
    \A t \in Callers :
        LET f == call[t]
        IN  Returned(f, "encode_bytes32") =>
                /\ Len(f.ret.val) = 64
                /\ IsLowerHex(f.ret.val)

\* a 33-byte identifier was encoded as 66 characters
C19_Witness ==
    \E t \in Callers :
        LET f == call[t]
        IN  /\ Returned(f, "encode_bytes32")
            /\ f.args.value = "0x" \o repeat("ab", 33)
            /\ Len(f.ret.val) = 66

\* an optional "+" and then one ASCII digit or more, as u128::from_str reads
IsUnsignedDecimal(s) ==
    LET digits == IF starts_with(s, "+") THEN SubSeq(s, 2, Len(s)) ELSE s
    IN  digits # "" /\ \A i \in 1..Len(digits) : IsDigit(Char(digits, i))

\* the numbers of the small numeric strings of the model
SmallNumbers == ("0" :> 0) @@ ("5" :> 5) @@ ("255" :> 255) @@ ("007" :> 7) @@ ("+5" :> 5)

NumericEncoders == {"encode_uint256_from_str", "encode_uint256", "aggregate_transactions"}

\* the encoders and the hasher
EncoderOperations ==
    NumericEncoders \cup {"create_safe_struct_hash", "encode_redeem_positions", "encode_bytes32"}

\* the call has encoded a numeric string
EncodedNumber(f) ==
    /\ f.pc = "done"
    /\ f.op \in NumericEncoders
    /\ f.op = "aggregate_transactions" => f.args.transactions # <<>>

\* the word a numeric encoder made of its numeric string: the result of the
\* word encoders, the value word of the first packed call of the aggregator
NumericWord(f) ==
    IF f.op = "aggregate_transactions" THEN SubSeq(f.ret.val.data, 181, 244) ELSE f.ret.val

NumericArgument(f) ==
    IF f.op = "aggregate_transactions" THEN f.args.transactions[1].value ELSE f.args.value

\* C20: the call encoder, the typed-data hasher's encoder and the aggregator
\* all turn a numeric string that is not an unsigned decimal integer (the
\* empty string included) into the all-zero word and a small decimal into
\* its value; every encoder call returns, none rejects its input.
C20_InvalidNumberEncodesZero ==
    \A t \in Callers :
        LET f == call[t]
        IN  /\ f.op \in EncoderOperations => f.pc # "panicked"
            /\ EncodedNumber(f) =>
                    /\ Len(NumericWord(f)) = 64
                    /\ ~IsUnsignedDecimal(NumericArgument(f)) => NumericWord(f) = ZeroWord
                    /\ NumericArgument(f) \in DOMAIN SmallNumbers =>
                            WordValue(NumericWord(f)) = SmallNumbers[NumericArgument(f)]

\* the aggregator packed a call whose value is "12abc" with a zero value word
C20_Witness ==
    \E t \in Callers :
        LET f == call[t]
        IN  /\ Returned(f, "aggregate_transactions")
            /\ EncodedNumber(f)
            /\ NumericArgument(f) = "12abc"
            /\ NumericWord(f) = ZeroWord

\* ASCII digits only, at least one
IsDigitString(s) == s # "" /\ \A i \in 1..Len(s) : IsDigit(Char(s, i))

\* the 32-byte big-endian word of the integer a digit string denotes
BigEndianWord(s) == PadLeftZeros(DecimalToHex(StripLeadingZeros(s)), 64)

\* C21: for every decimal string that denotes an unsigned integer below
\* 2^256, the word made by the call encoder, by the typed-data hasher's
\* encoder and by the aggregator is the 32-byte big-endian representation of
\* that integer.
C21_DecimalEncodesBigEndian ==
    \A t \in Callers :
        LET f == call[t]
        IN  (EncodedNumber(f) /\ IsDigitString(NumericArgument(f))) =>
                NumericWord(f) = BigEndianWord(NumericArgument(f))

\* 2^128 was encoded as the zero word
C21_Witness ==
    \E t \in Callers :
        LET f == call[t]
        IN  /\ Returned(f, "encode_uint256")
            /\ NumericArgument(f) = TwoTo128
            /\ NumericWord(f) = ZeroWord
            /\ BigEndianWord(TwoTo128) = repeat("0", 31) \o "1" \o repeat("0", 32)

\* the n bytes from byte offset `from` of a "0x"-prefixed hex string
BytesAt(d, from, n) == SubSeq(d, 3 + 2 * from, 2 + 2 * (from + n))

\* the bytes a well-formed hex string denotes, and their number
RawBytes(hex) == to_lowercase(strip_0x(hex))
RawLen(hex) == Len(strip_0x(hex)) \div 2

RECURSIVE PackedLength(_)
\* 85 bytes and the data of each call
PackedLength(transactions) ==
    IF transactions = <<>> THEN 0
    ELSE 85 + RawLen(Head(transactions).data) + PackedLength(Tail(transactions))

RECURSIVE IsPackedFrom(_, _, _)
\* from byte offset `from` on, d holds the calls one after the other: the call
\* kind, the destination in 20 bytes, the value, the data length, the data
IsPackedFrom(d, from, transactions) ==
    IF transactions = <<>> THEN TRUE
    ELSE LET tx == Head(transactions)
             n == RawLen(tx.data)
         IN  /\ WordValue(BytesAt(d, from, 1)) = tx.operation
             /\ BytesAt(d, from + 1, 20) = PadLeftZeros(RawBytes(tx.to), 40)
             /\ tx.value \in DOMAIN SmallNumbers =>
                    WordValue(BytesAt(d, from + 21, 32)) = SmallNumbers[tx.value]
             /\ WordValue(BytesAt(d, from + 53, 32)) = n
             /\ BytesAt(d, from + 85, n) = RawBytes(tx.data)
             /\ IsPackedFrom(d, from + 85 + n, Tail(transactions))

\* the zero bytes that bring L bytes to a multiple of 32
PaddingOf(L) == CHOOSE p \in 0..31 : (L + p) % 32 = 0

\* C22: the aggregated data is the selector 8d80ff0a, the offset word 32, the
\* length word L, the packed calls in input order with nothing between them
\* (call kind, 20 destination bytes, 32-byte value, 32-byte data length, raw
\* data), then zero bytes up to the next multiple of 32, none when L is one;
\* L is the sum over the calls of 85 plus the data length.
C22_MultiSendLayout ==
    \A t \in Callers :
        LET f == call[t]
        IN  Returned(f, "aggregate_transactions") =>
                LET d == f.ret.val.data
                    L == PackedLength(f.args.transactions)
                IN  /\ SubSeq(d, 1, 2) = "0x"
                    /\ BytesAt(d, 0, 4) = "8d80ff0a"
                    /\ BytesAt(d, 4, 31) = repeat("00", 31)
                    /\ WordValue(BytesAt(d, 35, 1)) = 32
                    /\ WordValue(BytesAt(d, 36, 32)) = L
                    /\ IsPackedFrom(d, 68, f.args.transactions)
                    /\ BytesAt(d, 68 + L, PaddingOf(L)) = repeat("00", PaddingOf(L))
                    /\ Len(d) = 2 + 2 * (68 + L + PaddingOf(L))

\* two calls of 88 and 96 packed bytes: 184 bytes and 8 bytes of padding
C22_Witness ==
    \E t \in Callers :
        LET f == call[t]
        IN  /\ Returned(f, "aggregate_transactions")
            /\ Len(f.args.transactions) = 2
            /\ f.args.transactions[1].data = "0xABCDEF"
            /\ f.args.transactions[2].data = "0x" \o repeat("a1", 11)
            /\ PackedLength(f.args.transactions) = 184
            /\ Len(f.ret.val.data) = 2 + 2 * (68 + 184 + 8)

\* one call of 96 packed bytes: no padding
C22_WitnessAligned ==
    \E t \in Callers :
        LET f == call[t]
        IN  /\ Returned(f, "aggregate_transactions")
            /\ Len(f.args.transactions) = 1
            /\ PackedLength(f.args.transactions) = 96
            /\ Len(f.ret.val.data) = 2 + 2 * (68 + 96)

\* C23: the remap of the recovery byte is total on the 256 byte values: 0
\* and 27 give 31, 1 and 28 give 32, every other byte v gives v + 4, and the
\* result fits in one byte.
C23_RecoveryByteRemapIsTotal ==
    \A t \in Callers :
        LET f == call[t]
            v == f.args.v
        IN  (f.op = "remap_recovery_byte" /\ f.pc # "called") =>
                /\ f.pc = "done"
                /\ f.ret.val = IF v \in {0, 27} THEN 31
                               ELSE IF v \in {1, 28} THEN 32
                               ELSE v + 4
                /\ f.ret.val \in Bytes

\* the byte 252: the addition overflowed and the call panicked
C23_Witness ==
    \E t \in Callers :
        LET f == call[t]
        IN  /\ f.op = "remap_recovery_byte"
            /\ f.args.v = 252
            /\ f.args.overflow_checks
            /\ f.pc = "panicked"

\* the byte 252 without overflow checks: the sum wrapped around to 0
C23_WitnessWrapped ==
    \E t \in Callers :
        LET f == call[t]
        IN  /\ Returned(f, "remap_recovery_byte")
            /\ f.args.v = 252
            /\ ~f.args.overflow_checks
            /\ f.ret.val = 0

----------------------------------------------------------------------------
(* Properties of the signed digest and of the request authentication *)

\* the domain separator with a name field, and the one without
NamedDomain(name, verifying_contract, chain_id) ==
    keccak256(keccak256("EIP712Domain(string name,address verifyingContract,uint256 chainId)")
              \o keccak256(name)
              \o encode_address(verifying_contract)
              \o encode_uint256(to_string(chain_id)))

UnnamedDomain(verifying_contract, chain_id) ==
    keccak256(keccak256("EIP712Domain(uint256 chainId,address verifyingContract)")
              \o encode_uint256(to_string(chain_id))
              \o encode_address(verifying_contract))

\* the digest is the EIP-712 hash under the domain separator `domain`
HasDomain(digest, domain) == starts_with(digest, "keccak(1901" \o domain)

\* the call has computed the digest it signs
HasDigest(f) == f.exec.some /\ "struct_hash" \in DOMAIN f.exec.val

\* the wallet derived from the client's signer
ClientWallet == derive_safe_address(signer_address(Client.signer.val),
                                    Client.contract_config.safe_factory)

\* C24: the digest deploy signs has the domain separator of {scheme name,
\* factory address, chain id}; the digest execute signs has the one of {chain
\* id, wallet address} without a name, the wallet being the one derived from
\* the client's signer; neither has the other's scheme, both have the chain
\* id the client was constructed with, and the submitted signature is over
\* that digest.
C24_DomainSeparatorPerOperation ==
    \A t \in Callers :
        LET f == call[t]
            digest == f.exec.val.struct_hash
            factory == Client.contract_config.safe_factory
        IN  HasDigest(f) =>
                /\ f.op = "deploy" =>
                        /\ HasDomain(digest, NamedDomain("Polymarket Contract Proxy Factory",
                                                         factory, Client.chain_id))
                        /\ ~HasDomain(digest, UnnamedDomain(factory, Client.chain_id))
                /\ f.op \in ExecuteOperations =>
                        /\ HasDomain(digest, UnnamedDomain(ClientWallet, Client.chain_id))
                        /\ ~HasDomain(digest, NamedDomain("Polymarket Contract Proxy Factory",
                                                          ClientWallet, Client.chain_id))
                /\ f.pc = "submit_wait" =>
                        starts_with(f.submitted.val.request.signature,
                                    "0x" \o SignatureRS(Client.signer.val, digest))

\* execute on the Amoy client has submitted a request signed under the
\* wallet's domain
C24_Witness ==
    \E t \in Callers :
        LET f == call[t]
        IN  /\ HasDigest(f)
            /\ f.op = "execute"
            /\ f.pc = "submit_wait"
            /\ Client.chain_id = 80002
            /\ HasDomain(f.exec.val.struct_hash, UnnamedDomain(ClientWallet, 80002))

\* deploy has submitted a request signed under the factory's domain
C24_WitnessDeploy ==
    \E t \in Callers :
        LET f == call[t]
        IN  /\ HasDigest(f)
            /\ f.op = "deploy"
            /\ f.pc = "submit_wait"
            /\ HasDomain(f.exec.val.struct_hash,
                         NamedDomain(SAFE_FACTORY_NAME, Client.contract_config.safe_factory,
                                     Client.chain_id))

\* what the clock can read when it does not fail, as the header carries it
ClockStrings == {to_string(now.secs) : now \in {r \in ClockReadings : r.ok}}

\* C25: for every submitted request the signature header is the HMAC, keyed
\* by the client's secret, over timestamp, "POST", "/submit" and body, where
\* timestamp is the value of the timestamp header, a reading of the clock, and
\* body is the request body that is sent, the serialization of the request;
\* the client holds no timestamp between requests.
C25_SignatureCoversTimestampAndBody ==
    /\ HasClient =>
            DOMAIN Client = {"relayer_url", "chain_id", "signer", "builder_creds",
                             "contract_config"}
    /\ \A t \in Callers :
            call[t].submitted.some =>
                LET sent == call[t].submitted.val
                    creds == Client.builder_creds.val
                IN  /\ sent.body = SerializeRequest(sent.request)
                    /\ sent.headers.timestamp \in ClockStrings
                    /\ sent.headers.signature =
                            "b64url(hmac(b64(" \o creds.secret \o "),"
                                \o sent.headers.timestamp \o "POST" \o "/submit" \o sent.body
                                \o "))"
                    /\ sent.headers.api_key = creds.key
                    /\ sent.headers.passphrase = creds.passphrase
                    /\ DOMAIN call[t] = {"op", "pc", "args", "loc", "exec", "log",
                                         "submitted", "ret"}

\* redeem_all_positions has sent its second request, stamped with the later
\* reading of the clock
C25_Witness ==
    \E t \in Callers :
        /\ RedeemingAll(call[t])
        /\ call[t].pc = "submit_wait"
        /\ call[t].loc.k = 2
        /\ call[t].submitted.val.headers.timestamp = "1700000030"

----------------------------------------------------------------------------
(* Properties of the polling loop *)

\* C26: wait_for_transaction polls sequentially: its requests and sleeps
\* alternate, starting with a poll, so one poll is issued per iteration and at
\* most one is in flight; every sleep lasts the configured interval, follows a
\* poll and is followed by another poll, so a finished wait has not ended on
\* a sleep.
C26_SleepsOnlyBetweenPolls ==
    \A t \in Callers :
        LET f == call[t]
            n == Len(f.log)
        IN  IsWaiting(f) =>
                /\ \A i \in 1..n :
                        IF i % 2 = 1 THEN f.log[i].kind = "get_transaction"
                        ELSE f.log[i] = EvSleep(f.loc.poll_interval)
                /\ f.pc = "poll_wait" => (n > 0 /\ f.log[n].kind = "get_transaction")
                /\ f.pc = "sleeping" => (n > 0 /\ f.log[n].kind = "sleep")
                /\ f.pc = "done" => (n = 0 \/ f.log[n].kind # "sleep")

\* max_polls = 1: the one poll reported New, the wait slept the interval and
\* then returned Ok(None) without another poll
C26_Witness ==
    \E t \in Callers :
        LET f == call[t]
        IN  /\ IsWaiting(f)
            /\ f.args.max_polls = Some(1)
            /\ f.pc = "done"
            /\ f.ret.val = Ok(None)
            /\ Len(f.log) = 2
            /\ f.log[2].kind = "sleep"

----------------------------------------------------------------------------
(* Properties of the requests of one deploy or execute call *)

\* the kinds of the events a call has logged after the first `from` events
KindsAfter(f, from) == [i \in 1..(Len(f.log) - from) |-> f.log[from + i].kind]

IsPrefix(s, whole) == Len(s) <= Len(whole) /\ s = SubSeq(whole, 1, Len(s))

DeployOrder == <<"get_deployed", "sign", "submit">>
ExecuteOrder == <<"get_deployed", "get_nonce", "sign", "submit">>

\* a GET that did not deliver a decodable answer
GetFailed(resp) == resp.kind = "transport_error" \/ ~resp.body.json

\* a POST /submit that did not deliver a decodable 2xx answer
SubmitFailed(resp) == GetFailed(resp) \/ ~status_is_success(resp.status)

\* the call of t has ended with an error and has issued nothing further
EndsWithError(t, result) ==
    /\ call'[t].pc = "done"
    /\ call'[t].ret = Some(result)
    /\ result.tag = "Err"
    /\ call'[t].log = call[t].log

RequestsInOrder ==
    \A t \in Callers :
        LET f == call[t]
        IN  /\ (f.op = "deploy" /\ f.pc # "idle") => IsPrefix(KindsAfter(f, 0), DeployOrder)
            /\ InExecute(f) => IsPrefix(KindsAfter(f, f.exec.val.start), ExecuteOrder)

FailedRequestEndsCall ==
    \A t \in Callers :
        /\ \A resp \in DeployedResponses :
                GetFailed(resp) =>
                    /\ DeployDeployedResponse(t, resp) => EndsWithError(t, DecodeJson(resp))
                    /\ ExecuteDeployedResponse(t, resp) => EndsWithError(t, DecodeJson(resp))
        /\ \A resp \in NonceResponses :
                (GetFailed(resp) /\ ExecuteNonceResponse(t, resp))
                    => EndsWithError(t, DecodeJson(resp))
        /\ \A resp \in SubmitResponses :
                (SubmitFailed(resp) /\ SubmitResponse(t, resp))
                    => EndsWithError(t, submit_result(resp))

\* C27: one deploy or execute call issues its relayer requests in the fixed
\* order deployed check, (for execute) nonce fetch, signature, submit, each at
\* most once, so never more than one submit; a request that fails is not
\* retried and ends the call with that request's error.
C27_RequestsOnceInOrder == []RequestsInOrder /\ [][FailedRequestEndsCall]_vars

\* an execute call that ended with the transport error of its nonce fetch,
\* having issued the deployed check and the nonce fetch and nothing else
C27_Witness ==
    \E t \in Callers :
        LET f == call[t]
        IN  /\ InExecute(f)
            /\ f.pc = "done"
            /\ f.ret = Some(Err("Http", "send"))
            /\ KindsAfter(f, f.exec.val.start) = <<"get_deployed", "get_nonce">>

----------------------------------------------------------------------------
(* Properties of the request execute submits against the digest it signs *)

\* the numeric string is a decimal number and the hasher's word is that number
HashedAsNumber(s) == IsDigitString(s) /\ encode_uint256(s) = BigEndianWord(s)

\* the hex string decodes, so that the hasher hashes the bytes it spells
HashedAsBytes(data) == hex_decode_or_default(strip_0x(data)) = to_lowercase(strip_0x(data))

\* the address decodes to at most 20 bytes, so that the hasher's word holds them
HashedAsAddress(addr) ==
    /\ HashedAsBytes(addr)
    /\ encode_address(addr) = PadLeftZeros(to_lowercase(strip_0x(addr)), 64)

\* the digest of the fields the request carries
RequestDigest(c, r, operation) ==
    create_safe_struct_hash(c.chain_id, r.proxy_wallet, r.to, r.value.val, r.data, operation,
                            "0", "0", "0", ZERO_ADDRESS, ZERO_ADDRESS, r.nonce.val)

\* the request's fields are the ones hashed, whatever they were encoded as
RequestFieldsAreHashed(f) ==
    LET r == f.submitted.val.request
    IN  /\ r.value.some /\ r.nonce.some /\ r.signature_params.some
        /\ r.signature_params.val.operation = Some(to_string(f.exec.val.operation))
        /\ f.exec.val.struct_hash = RequestDigest(Client, r, f.exec.val.operation)
        /\ starts_with(r.signature,
                       "0x" \o SignatureRS(Client.signer.val, f.exec.val.struct_hash))

\* every field of the request was encoded as the value it denotes
RequestFieldsKeepTheirValue(f) ==
    LET r == f.submitted.val.request
    IN  /\ HashedAsAddress(r.to)
        /\ HashedAsNumber(r.value.val)
        /\ HashedAsBytes(r.data)
        /\ HashedAsNumber(r.nonce.val)

----------------------------------------------------------------------------
(* Properties of the polls that decide nothing and of the polls that fail *)

\* a poll that was answered, with no transaction or with a first transaction
\* whose state string is missing or not one of the six known strings
Inconclusive(resp) ==
    /\ resp.kind = "response"
    /\ resp.body.json
    /\ \/ resp.body.val = <<>>
       \/ resp.body.val[1].state \notin {Some(s) : s \in StateStrings}

\* the wait sleeps after an inconclusive poll, and that poll has used up one
\* of the max_polls iterations when the sleep is over
InconclusivePollSleepsAndCounts ==
    \A t \in Callers :
        LET f == call[t]
        IN  /\ \A resp \in PollResponses :
                    (Inconclusive(resp) /\ PollResponse(t, resp)) =>
                        /\ call'[t].pc = "sleeping"
                        /\ call'[t].log = Append(f.log, EvSleep(f.loc.poll_interval))
                        /\ Polls(call'[t]) = Polls(f)
            /\ (f.pc = "sleeping" /\ Inconclusive(f.loc.last.val) /\ Wake(t)) =>
                    IF Polls(f) < f.loc.max_polls
                    THEN call'[t].pc = "poll_wait" /\ Polls(call'[t]) = Polls(f) + 1
                    ELSE call'[t].pc = "done" /\ call'[t].ret = Some(Ok(None))
                         /\ call'[t].log = f.log

\* C29: a poll whose response holds no transaction, or whose first transaction
\* has a missing or unrecognised state string, is non-terminal: the wait
\* sleeps and goes on, the poll counts toward max_polls, and only the first
\* transaction of the response is looked at.
C29_InconclusivePollIsNonTerminal ==
    /\ [][InconclusivePollSleepsAndCounts]_vars
    /\ [](\A t \in Callers : (IsWaiting(call[t]) /\ call[t].pc # "idle")
                                => Polls(call[t]) <= call[t].loc.max_polls)

\* the wait sleeps after a poll whose first transaction has no state and whose
\* second transaction is confirmed
C29_Witness ==
    \E t \in Callers :
        LET f == call[t]
        IN  /\ IsWaiting(f)
            /\ f.pc = "sleeping"
            /\ f.loc.last = Some(Response(200, Json(<<PolledTx("tx-1", None),
                                                     PolledTx("tx-1", Some("STATE_CONFIRMED"))>>)))

\* the first transaction of the answer is in a state that ends the wait
ReportsFinalState(resp) ==
    FirstReportedState(resp) \in {Some("STATE_MINED"), Some("STATE_CONFIRMED"),
                                  Some("STATE_FAILED"), Some("STATE_INVALID")}

\* a failed poll ends the wait with the error of the request and no sleep;
\* the wait sleeps, and so polls again, only after an answer that was received
\* and decoded and that reports no final state
FailedPollEndsWait ==
    \A t \in Callers :
        \A resp \in PollResponses :
            PollResponse(t, resp) =>
                /\ GetFailed(resp) =>
                        /\ EndsWithError(t, Err("Http", IF resp.kind = "transport_error"
                                                        THEN "send" ELSE "decode"))
                        /\ Polls(call[t]) = Polls(call'[t])
                /\ call'[t].pc = "sleeping" => (~GetFailed(resp) /\ ~ReportsFinalState(resp))
                /\ call'[t].pc \in {"sleeping", "done"}

\* C30: when a poll request itself fails, by a transport error or by an
\* answer that cannot be decoded, wait_for_transaction returns that error at
\* once, without sleeping and without using the polls that remain; the loop
\* polls again only after a received, non-terminal response.
C30_FailedPollReturnsAtOnce == [][FailedPollEndsWait]_vars

\* a wait that was allowed more than one poll and ended with the decoding
\* error of its first poll
C30_Witness ==
    \E t \in Callers :
        LET f == call[t]
        IN  /\ IsWaiting(f)
            /\ f.pc = "done"
            /\ f.ret = Some(Err("Http", "decode"))
            /\ f.loc.max_polls >= 2
            /\ KindsAfter(f, 0) = <<"get_transaction">>

====
